---- MODULE Spec2Model ----
(***************************************************************************)
(* Time-driven scenario core of the earth-3d project: the virtual clock    *)
(* (GameLoop), the scenario engine (ScenarioEngine) and the notifications  *)
(* they publish on the event bus.                                          *)
(*                                                                         *)
(* Units.  Real time and GameTime.elapsedMs are in milliseconds, as in the *)
(* code.  ScenarioTime is a number of game hours in the code; here every   *)
(* ScenarioTime (event.time, state.currentTime, the result of              *)
(* gameTimeToScenarioTime) is held multiplied by MS_PER_GAME_HOUR, so that *)
(* the quarter hours of the authored scenario stay integers.  The          *)
(* comparison  event.time <= scenarioTime  is unchanged by that scaling.   *)
(***************************************************************************)
EXTENDS Integers, Sequences, FiniteSets, TLC

VARIABLES
    now,               \* performance.now(): the host's real-time clock (ms)
    rafQueue,          \* ids of the animation-frame callbacks still outstanding
    isRunning,         \* GameLoop.isRunning
    speedMultiplier,   \* GameLoop.speedMultiplier
    gameTime,          \* GameLoop.gameTime
    lastTickTime,      \* GameLoop.lastTickTime
    animationFrameId,  \* GameLoop.animationFrameId (NULL_ID when null)
    scenario,          \* ScenarioEngine.scenario (NoScenario when null)
    state,             \* ScenarioEngine.state (NoState when null)
    pendingEvents,     \* ScenarioEngine.pendingEvents
    log,               \* notifications published by the last operation, in order
    triggered,         \* ids of scenario:eventTriggered since the last load
    completeCount,     \* number of scenario:complete since the last load
    idle,              \* real ms that passed while the clock was last not running
    resumedAt,         \* real time of a start()/resume() no frame has followed yet, else NoRef
    restoredFrom,      \* GameTime that the restoreTime just made replaced, else NoTime
    lastCall,          \* name of the GameLoop method the last step called, where recorded
    listeners,         \* EventBus.listeners: event -> its Set of callbacks, in insertion order
    wrapperCount,      \* number of wrappedCallback closures that once() has created
    invocations,       \* the callback bodies run by the last emit(), in order
    onceRuns,          \* per wrappedCallback, how often the callback it wraps was run
    emitted,           \* the event of the emit() the last step made, else NoEvent
    escaped,           \* whether that emit() threw to its caller
    locations,         \* WorldData.locations: id -> LocationState
    nations,           \* WorldData.nations: id -> NationState
    baseline,          \* the locations as they were when the scenario was last loaded
    listenerThrew,     \* whether the scene's scenario:eventTriggered listener threw in the last step
    lastUpdate,        \* the id and the updates of the updateLocation/updateNation just made
    resources,         \* ResourceManager.resources: type -> Resource
    regenCount,        \* number of runs of ResourceManager.onHourChanged so far
    resourceCall,      \* the spend/add call the last step made: method, argument, result
    resourceCallCount, \* number of spend/add calls so far
    manager,           \* GameStateManager: currentPhase, runState, stats
    storage,           \* localStorage: what the save slot holds
    saveCall,          \* the saveGame/loadGame call the last step made: method, result
    handled,           \* what the handlers that acted in the last step did, in order
    uncaught           \* the last step ended with an exception out of the clock

vars == <<now, rafQueue, isRunning, speedMultiplier, gameTime, lastTickTime,
          animationFrameId, scenario, state, pendingEvents, log, triggered,
          completeCount, idle, resumedAt, restoredFrom, lastCall,
          listeners, wrapperCount, invocations, onceRuns, emitted, escaped,
          locations, nations, baseline, listenerThrew, lastUpdate,
          resources, regenCount, resourceCall, resourceCallCount,
          manager, storage, saveCall, handled, uncaught>>

clockVars == <<isRunning, speedMultiplier, gameTime, lastTickTime, animationFrameId>>
engineVars == <<scenario, state, pendingEvents>>
resumeGhost == <<idle, resumedAt>>
busVars == <<listeners, wrapperCount, invocations, onceRuns, emitted, escaped>>
sceneVars == <<now, rafQueue, clockVars, engineVars, log, triggered, completeCount,
               resumeGhost, restoredFrom, lastCall>>
worldVars == <<locations, nations, baseline, listenerThrew, lastUpdate>>
resourceVars == <<resources, regenCount, resourceCall, resourceCallCount>>
saveVars == <<manager, storage, saveCall>>
handlerVars == <<handled, uncaught>>
managerVars == <<resourceVars, saveVars, handlerVars>>

(***************************************************************************)
(* Bounds                                                                  *)
(***************************************************************************)
MaxRealSteps == 2       \* real time is followed for this many steps of 1000 ms
MaxGapSteps == 1        \* ... and for this many steps without a tick in between
MaxRealStepsFC == 12    \* the same for the first-contact run, in steps of 15000 ms
MaxGapStepsFC == 2
MaxElapsedHoursFC == 73 \* ... which is followed until the clock has passed this hour
MaxClockSteps == 3      \* real-time steps of 1000 ms when the clock is driven alone
MaxListeners == 2       \* callbacks held by one event's Set
MaxOnce == 2            \* calls of once() in a run
MaxDepth == 3           \* nested emit() calls the host's call stack allows
MaxEffectSteps == 3     \* real-time steps of 600 ms when scenario effects are followed
MaxEffectGapSteps == 2  \* ... and steps without a tick in between
MaxResourceSteps == 2   \* real-time steps of 1000 ms with the resource manager subscribed
MaxResourceGapSteps == 2
MaxHandlerSteps == 2    \* real-time steps of a minute with handlers acting
MaxHandlerGapSteps == 2
MaxActs == 1            \* times a handler acts within one call into the clock
MaxOutstanding == 2     \* frame callbacks outstanding when a call that can add one is made
MaxResourceCalls == 2   \* calls of spend and add in a run

MaxNow == MaxRealSteps * 1000
MaxFrameGap == MaxGapSteps * 1000
MaxNowFC == MaxRealStepsFC * 15000
MaxFrameGapFC == MaxGapStepsFC * 15000
MaxElapsedFC == MaxElapsedHoursFC * 60000
MaxNowClock == MaxClockSteps * 1000
MaxNowFX == MaxEffectSteps * 600
MaxFrameGapFX == MaxEffectGapSteps * 600
MaxNowRes == MaxResourceSteps * 1000
MaxNowHandlers == MaxHandlerSteps * 60000
MaxFrameGapHandlers == MaxHandlerGapSteps * 60000
MaxFrameGapRes == MaxResourceGapSteps * 1000

RealDeltas == {1000}             \* real ms that pass between two operations
RealDeltasFC == {15000, 30000}
RestoreElapsed == {0, 1380500}   \* elapsedMs of the saved times handed to restoreTime
SpeedsFC == {1, 100}
RealDeltasFX == {600}            \* at 100x, one game hour
SpeedsFX == {100}

(***************************************************************************)
(* Program constants                                                       *)
(***************************************************************************)
MS_PER_GAME_MINUTE == 1000
MS_PER_GAME_HOUR == MS_PER_GAME_MINUTE * 60
MINUTES_PER_HOUR == 60
HOURS_PER_DAY == 24
SPEED_PRESETS == <<1, 100, 500, 1440>>

NULL_ID == 0
NoScenario == "null"
NoState == [scenarioId |-> "null", currentTime |-> 0,
            completedEventIds |-> {}, isComplete |-> FALSE]
NoTime == [elapsedMs |-> 0 - 1, day |-> 0, hour |-> 0, minute |-> 0]
NoRef == 0 - 1
NoCall == "none"
Absent == "undefined"            \* an optional field left out; a Map.get that finds nothing
Max2(a, b) == IF a >= b THEN a ELSE b
Min2(a, b) == IF a <= b THEN a ELSE b

Range(s) == {s[i] : i \in 1..Len(s)}
Speeds == Range(SPEED_PRESETS)
Hours(h4) == (h4 * MS_PER_GAME_HOUR) \div 4    \* h4 quarter hours as a ScenarioTime

(***************************************************************************)
(* Scenarios                                                               *)
(***************************************************************************)
Ev(id, h4) == [id |-> id, time |-> Hours(h4)]

firstContactScenario ==
    [id |-> "first-contact",
     events |-> << Ev("arrival-1", 0), Ev("arrival-2", 1), Ev("arrival-3", 2),
                   Ev("hack-comms-1", 4), Ev("hack-comms-2", 5),
                   Ev("attack-norad", 8), Ev("attack-response-1", 10),
                   Ev("destroy-fighters", 12), Ev("attack-grid-1", 16),
                   Ev("civilian-panic-1", 18), Ev("attack-europe-1", 24),
                   Ev("attack-europe-2", 28), Ev("human-nuclear-attempt", 40),
                   Ev("intercept-nukes", 44), Ev("attack-silos-1", 48),
                   Ev("occupy-1", 60), Ev("narrative-day1-end", 80),
                   Ev("day2-start", 96), Ev("occupy-2", 104), Ev("occupy-3", 120),
                   Ev("resistance-forms", 144), Ev("occupy-washington", 160),
                   Ev("broadcast", 192), Ev("day3-morning", 224),
                   Ev("scenario-end", 288) >>]

\* Scenarios handed to loadScenario besides the authored one: the spec's
\* [0, 1, 1, 5] example and an unsorted list with a tie split by another event.
TestScenarios ==
    { [id |-> "ordered",
       events |-> << Ev("a", 0), Ev("b", 4), Ev("c", 4), Ev("d", 20) >>],
      [id |-> "shuffled",
       events |-> << Ev("p", 20), Ev("q", 4), Ev("r", 1), Ev("s", 4) >>] }

\* A LocationEffect with its optional fields (stabilityChange 0 has the
\* effect of one left out: the listener tests it for truthiness), and a
\* ScenarioEvent that carries a type, a locationId and an effect.
Effect(locationId, newStatus, newControlledBy, stabilityChange) ==
    [locationId |-> locationId, newStatus |-> newStatus,
     newControlledBy |-> newControlledBy, stabilityChange |-> stabilityChange]

EvFx(id, h4, type, locationId, effect) ==
    [id |-> id, time |-> Hours(h4), type |-> type, locationId |-> locationId,
     effect |-> effect]

\* Scenarios whose events change locations: two effects on one location an
\* hour apart; deltas that overshoot both ends of the stability range; and
\* an event aimed at a location the world data does not hold.
EffectScenarios ==
    { [id |-> "two-step",
       events |-> << EvFx("strike", 0, "destroy", "usa-norad",
                          Effect("usa-norad", Absent, "destroyed", 0)),
                     EvFx("aftershock", 4, "attack", "usa-norad",
                          Effect("usa-norad", Absent, Absent, 0 - 30)) >>],
      [id |-> "collapse",
       events |-> << EvFx("bombard", 0, "attack", "uk-london",
                          Effect("uk-london", Absent, Absent, 0 - 150)),
                     EvFx("riot", 4, "civilian", "uk-london",
                          Effect("uk-london", Absent, Absent, 0 - 20)),
                     EvFx("relief", 8, "human_response", "uk-london",
                          Effect("uk-london", "contested", Absent, 250)) >>],
      [id |-> "stale",
       events |-> << EvFx("ghost-strike", 0, "attack", "atlantis",
                          Effect("atlantis", "occupied", "alien", 0 - 50)),
                     EvFx("real-strike", 4, "attack", "usa-norad",
                          Effect("usa-norad", "contested", Absent, 0)),
                     Ev("epilogue", 8) >>] }

AllScenarios == TestScenarios \cup {firstContactScenario} \cup EffectScenarios
ScenarioById(sid) == CHOOSE s \in AllScenarios : s.id = sid
EventOf(sid, id) == CHOOSE e \in Range(ScenarioById(sid).events) : e.id = id

(***************************************************************************)
(* EventBus: a published notification, as it reaches the listeners         *)
(***************************************************************************)
Note(name, time, num, id) == [name |-> name, time |-> time, num |-> num, id |-> id]

\* The payload of game:speedChanged: { multiplier, previousMultiplier }.
SpeedNote(multiplier, previousMultiplier) ==
    [name |-> "game:speedChanged", time |-> NoTime, num |-> multiplier, id |-> "",
     previousMultiplier |-> previousMultiplier]

(***************************************************************************)
(* EventBus: the listener sets and emit                                    *)
(*                                                                         *)
(* A Set of callbacks is held as the sequence of its members in insertion  *)
(* order, which is the order Set.prototype.forEach visits them in; forEach *)
(* skips a member deleted before its turn.  No callback modelled here adds *)
(* a member, so the members still to visit are those of the Set when the   *)
(* forEach began.                                                          *)
(***************************************************************************)
BusEvents == {"game:tick", "scenario:complete"}
NoEvent == "none"
Callbacks == {"h1", "h2", "h3"}

\* What the body of each callback does: return, throw, or emit the event it
\* was called for once more.
Body(callback) ==
    CASE callback = "h2" -> "throw"
      [] callback = "h3" -> "emit"
      [] OTHER -> "return"

\* A member of a Set: the callback handed to on(), or (wrapper > 0) the
\* wrappedCallback closure that the wrapper-th call of once() made around it.
Direct == 0
Listener(callback, wrapper) == [callback |-> callback, wrapper |-> wrapper]

\* Array.prototype.push in place of Set.prototype.add.
push(set, entry) == Append(set, entry)

\* Set.prototype.add and Set.prototype.delete.
add(set, entry) == IF entry \in Range(set) THEN set ELSE Append(set, entry)

delete(set, entry) == LET keep(e) == e # entry IN SelectSeq(set, keep)

RECURSIVE emitAt(_, _, _)

\* callback(payload).  A nested emit beyond the host's stack depth throws.
callBody(bus, event, entry, depth) ==
    LET ran(threw) ==
            [bus EXCEPT
               !.invocations = Append(@, [event |-> event, callback |-> entry.callback,
                                          wrapper |-> entry.wrapper, depth |-> depth,
                                          threw |-> threw]),
               !.onceRuns = IF entry.wrapper = Direct THEN @
                            ELSE [@ EXCEPT ![entry.wrapper] = @ + 1]]
    IN  CASE Body(entry.callback) = "return" -> [bus |-> ran(FALSE), threw |-> FALSE]
          [] Body(entry.callback) = "throw" -> [bus |-> ran(TRUE), threw |-> TRUE]
          [] Body(entry.callback) = "emit" ->
               IF depth >= MaxDepth
               THEN [bus |-> ran(TRUE), threw |-> TRUE]
               ELSE emitAt(ran(FALSE), event, depth + 1)

\* wrappedCallback with the off() after the callback it wraps.
wrappedOffAfter(bus, event, entry, depth) ==
    LET r == callBody(bus, event, entry, depth) IN
    IF r.threw THEN r
    ELSE [r EXCEPT !.bus.listeners[event] = delete(@, entry)]

\* The wrappedCallback of once(): off(event, wrappedCallback), then callback(payload).
wrappedCallback(bus, event, entry, depth) ==
    callBody([bus EXCEPT !.listeners[event] = delete(@, entry)], event, entry, depth)

invoke(bus, event, entry, depth) ==
    IF entry.wrapper = Direct
    THEN callBody(bus, event, entry, depth)
    ELSE wrappedCallback(bus, event, entry, depth)

\* The callback called outside any try.
rethrow(r) == r

\* try { callback(payload) } catch (error) { console.error(...) }
tryCatch(r) == [r EXCEPT !.threw = FALSE]

\* callbacks.forEach(...) over the members still to visit.
RECURSIVE forEach(_, _, _, _)
forEach(bus, event, remaining, depth) ==
    IF remaining = << >>
    THEN [bus |-> bus, threw |-> FALSE]
    ELSE IF Head(remaining) \notin Range(bus.listeners[event])
    THEN forEach(bus, event, Tail(remaining), depth)
    ELSE LET r == tryCatch(invoke(bus, event, Head(remaining), depth)) IN
         IF r.threw THEN r
         ELSE forEach(r.bus, event, Tail(remaining), depth)

\* emit(event, payload) called at the given nesting depth.
emitAt(bus, event, depth) == forEach(bus, event, bus.listeners[event], depth)

(***************************************************************************)
(* WorldData, and the scene's listener that applies event effects to it    *)
(***************************************************************************)
Coordinates(lat, lng) == [lat |-> lat, lng |-> lng]

\* The location and nation data handed to initialize.
StrategicLocations ==
    << [id |-> "usa-norad", name |-> "NORAD", type |-> "command_center",
        coordinates |-> Coordinates(39, 0 - 105), nation |-> "usa"],
       [id |-> "uk-london", name |-> "London", type |-> "capital",
        coordinates |-> Coordinates(52, 0), nation |-> "uk"] >>

NationsData ==
    << [id |-> "usa", name |-> "United States", isNuclear |-> TRUE,
        initialMilitaryStrength |-> 90] >>

EmptyMap == [id \in {} |-> Absent]
NoUpdate == [id |-> Absent, updates |-> EmptyMap]

\* A merge in which the fields the target has already win over the updates.
assignKeep(target, updates) ==
    [field \in DOMAIN target \cup DOMAIN updates |->
        IF field \in DOMAIN target THEN target[field] ELSE updates[field]]

\* Object.assign(target, updates), also what { ...target, field: value } builds.
assign(target, updates) ==
    [field \in DOMAIN target \cup DOMAIN updates |->
        IF field \in DOMAIN updates THEN updates[field] ELSE target[field]]

initLocationState(location) ==
    assign(location, [status |-> "analyzed", controlledBy |-> "human", stability |-> 100])

initNationState(nation) ==
    assign(nation, [government |-> "functional",
                    militaryStrength |-> nation.initialMilitaryStrength,
                    resistance |-> 0, stability |-> 100, relations |-> "hostile"])

\* The Map that set(entry.id, ...) for each entry of the array in turn leaves.
LastWithId(entries, id) ==
    entries[CHOOSE i \in 1..Len(entries) :
              /\ entries[i].id = id
              /\ \A k \in (i + 1)..Len(entries) : entries[k].id # id]

\* stability + stabilityChange taken as it comes.
noClamp(value) == value

\* Math.max(0, Math.min(100, value))
clampStability(value) == Max2(0, Min2(100, value))

\* The three assignments to the location, each under its truthiness test.
applyOnce(location, effect) ==
    LET s1 == IF effect.newStatus # Absent
              THEN [location EXCEPT !.status = effect.newStatus] ELSE location
        s2 == IF effect.newControlledBy # Absent
              THEN [s1 EXCEPT !.controlledBy = effect.newControlledBy] ELSE s1
    IN  IF effect.stabilityChange # 0
        THEN [s2 EXCEPT !.stability = clampStability(@ + effect.stabilityChange)]
        ELSE s2

\* The assignments made twice over.
applyTwice(location, effect) == applyOnce(applyOnce(location, effect), effect)

applyEffect(location, effect) == applyOnce(location, effect)

HasEffect(event) == "effect" \in DOMAIN event

\* The listener without the "if (location)" test: the assignment to a field
\* of undefined throws.
onEventTriggeredUnguarded(world, event) ==
    IF ~HasEffect(event) THEN world
    ELSE IF event.effect.locationId \notin DOMAIN world.locations
    THEN [world EXCEPT !.threw = TRUE]
    ELSE [world EXCEPT
            !.locations[event.effect.locationId] = applyEffect(@, event.effect)]

\* The scene's scenario:eventTriggered listener, for what it does to the
\* world data.  (The feeds it writes to and the weapon effects it fires for
\* event.locationId, under the same test that the location exists, are
\* outside the model.)
onEventTriggered(world, event) ==
    IF HasEffect(event) /\ event.effect.locationId \in DOMAIN world.locations
    THEN [world EXCEPT
            !.locations[event.effect.locationId] = applyEffect(@, event.effect)]
    ELSE world

\* The listener run for each scenario:eventTriggered in publication order;
\* emit catches what a run throws and the engine goes on.
RECURSIVE dispatchAll(_, _)
dispatchAll(world, events) ==
    IF events = << >> THEN world
    ELSE dispatchAll(onEventTriggered(world, Head(events)), Tail(events))

(***************************************************************************)
(* ResourceManager                                                         *)
(*                                                                         *)
(* Amounts are held doubled, so that the 0.5 rods per hour that            *)
(* kineticRods regenerates stay an integer.                                *)
(***************************************************************************)
Amount(whole) == whole * 2

Resource(current, max, regenPerHour) ==
    [current |-> current, max |-> max, regenPerHour |-> regenPerHour]

DEFAULT_FLEET_RESOURCES ==
    [energy |-> Resource(Amount(1000), Amount(1000), Amount(10)),
     kineticRods |-> Resource(Amount(50), Amount(100), 1),
     drones |-> Resource(Amount(200), Amount(500), Amount(2)),
     personnel |-> Resource(Amount(1000), Amount(2000), Amount(1))]

NoResourceCall == [method |-> NoCall, arg |-> EmptyMap, result |-> FALSE]

\* onHourChanged(): the resources after one run of the regeneration.
onHourChanged(res) ==
    [type \in DOMAIN res |->
        IF res[type].regenPerHour > 0 /\ res[type].current < res[type].max
        THEN [res[type] EXCEPT !.current = Min2(@ + res[type].regenPerHour, res[type].max)]
        ELSE res[type]]

RECURSIVE regenerate(_, _)
regenerate(res, runs) ==
    IF runs = 0 THEN res ELSE regenerate(onHourChanged(res), runs - 1)

\* canAfford(cost).canAfford
canAfford(res, cost) ==
    \A type \in DOMAIN cost : cost[type] > 0 => res[type].current >= cost[type]

\* A spend that takes what it can, type by type, when the whole is not affordable.
spendPartial(res, cost) ==
    [resources |->
        [type \in DOMAIN res |->
            IF type \in DOMAIN cost /\ cost[type] > 0 /\ res[type].current >= cost[type]
            THEN [res[type] EXCEPT !.current = @ - cost[type]]
            ELSE res[type]],
     result |-> canAfford(res, cost),
     notes |-> << >>]

\* spend(cost): the resources after it, what it returns and what it publishes.
spendResult(res, cost) ==
    IF ~canAfford(res, cost)
    THEN [resources |-> res, result |-> FALSE,
          notes |-> << Note("resources:insufficientFunds", NoTime, 0, "") >>]
    ELSE [resources |->
             [type \in DOMAIN res |->
                 IF type \in DOMAIN cost /\ cost[type] > 0
                 THEN [res[type] EXCEPT !.current = @ - cost[type]]
                 ELSE res[type]],
          result |-> TRUE,
          notes |-> << Note("resources:spent", NoTime, 0, ""),
                       Note("resources:changed", NoTime, 0, "") >>]

\* add(gains) with previousValue + amount taken as it comes.
addUnclamped(res, gains) ==
    [resources |->
        [type \in DOMAIN res |->
            IF type \in DOMAIN gains /\ gains[type] > 0
            THEN [res[type] EXCEPT !.current = @ + gains[type]]
            ELSE res[type]],
     notes |-> << >>]

\* add(gains): the resources after it and what it publishes.
addResult(res, gains) ==
    LET after == [type \in DOMAIN res |->
                     IF type \in DOMAIN gains /\ gains[type] > 0
                     THEN [res[type] EXCEPT
                             !.current = Min2(@ + gains[type], res[type].max)]
                     ELSE res[type]]
    IN  [resources |-> after,
         notes |-> IF after # res
                   THEN << Note("resources:gained", NoTime, 0, ""),
                           Note("resources:changed", NoTime, 0, "") >>
                   ELSE << >>]

(***************************************************************************)
(* GameStateManager                                                        *)
(***************************************************************************)
DEFAULT_GAME_STATS ==
    [locationsAnalyzed |-> 0, locationsNeutralized |-> 0, locationsOccupied |-> 0,
     nationsDefeated |-> 0, totalCasualties |-> 0, dronesLost |-> 0,
     energySpent |-> 0, kineticRodsUsed |-> 0]

NoSaveCall == [method |-> NoCall, result |-> Absent]

GAME_STATE_VERSION == 1
NoPhase == 0           \* currentPhase after it was assigned undefined

\* What localStorage.getItem gives for the save slot: nothing, or a text.
\* A text that is the JSON of an object is held as that object.
NoItem == [kind |-> "null", value |-> EmptyMap]
Text(kind) == [kind |-> kind, value |-> EmptyMap]
Json(object) == [kind |-> "object", value |-> object]

\* JSON.stringify leaves out the properties whose value is undefined;
\* JSON.parse gives an object that has the properties written.
stringify(saved) ==
    LET written == {field \in DOMAIN saved :
                       /\ ~(field = "phase" /\ saved[field] = NoPhase)
                       /\ ~(field = "runState" /\ saved[field] = Absent)}
    IN  Json([field \in written |-> saved[field]])

\* Reading a property of a parsed object: undefined when it was not written.
phaseOf(saved) == IF "phase" \in DOMAIN saved THEN saved.phase ELSE NoPhase
runStateOf(saved) == IF "runState" \in DOMAIN saved THEN saved.runState ELSE Absent
statsOf(saved) == IF "stats" \in DOMAIN saved THEN saved.stats ELSE EmptyMap

serializeWorldState(locs, nats) ==
    [locations |->
        [id \in DOMAIN locs |->
            [status |-> locs[id].status, controlledBy |-> locs[id].controlledBy,
             stability |-> locs[id].stability]],
     nations |->
        [id \in DOMAIN nats |->
            [government |-> nats[id].government,
             militaryStrength |-> nats[id].militaryStrength,
             stability |-> nats[id].stability,
             resistance |-> nats[id].resistance,
             relations |-> nats[id].relations]]]

\* The two loops of restoreWorldState.
restoreLocations(locs, saved) ==
    [id \in DOMAIN locs |->
        IF id \in DOMAIN saved
        THEN [locs[id] EXCEPT !.status = saved[id].status,
                              !.controlledBy = saved[id].controlledBy,
                              !.stability = saved[id].stability]
        ELSE locs[id]]

restoreNations(nats, saved) ==
    [id \in DOMAIN nats |->
        IF id \in DOMAIN saved
        THEN [nats[id] EXCEPT !.government = saved[id].government,
                              !.militaryStrength = saved[id].militaryStrength,
                              !.stability = saved[id].stability,
                              !.resistance = saved[id].resistance,
                              !.relations = saved[id].relations]
        ELSE nats[id]]

\* saveGame(gameTime, resources): what the slot holds afterwards and what is
\* returned; setItem either stores the text or throws (quota, storage denied).
saveGameResult(mgr, locs, nats, time, res, savedAt, item, setItemThrows) ==
    LET saved == [version |-> GAME_STATE_VERSION, savedAt |-> savedAt,
                  phase |-> mgr.currentPhase, runState |-> mgr.runState,
                  time |-> time, resources |-> res, stats |-> mgr.stats,
                  worldState |-> serializeWorldState(locs, nats)]
    IN  IF setItemThrows
        THEN [storage |-> item, result |-> "false", notes |-> << >>]
        ELSE [storage |-> stringify(saved), result |-> "true",
              notes |-> << Note("game:saved", NoTime, savedAt, "") >>]

\* loadGame(): the manager and the world data afterwards, and what is
\* returned: "state" for the loaded saved, "null" for null.
loadGameResult(mgr, locs, nats, item) ==
    LET same == [manager |-> mgr, locations |-> locs, nations |-> nats,
                 result |-> "null", notes |-> << >>]
        saved == item.value
        restored == [currentPhase |-> phaseOf(saved), runState |-> runStateOf(saved),
                     stats |-> statsOf(saved)]
    IN  CASE item.kind \in {"null", "empty"} -> same       \* if (!data) return null
          [] item.kind = "garbage" -> same                  \* JSON.parse throws
          [] item.kind = "json-null" -> same                \* saved.version throws
          [] OTHER ->
               IF "worldState" \notin DOMAIN saved
                  \/ "locations" \notin DOMAIN saved.worldState
               THEN \* restoreWorldState throws in its first loop
                    [same EXCEPT !.manager = restored]
               ELSE IF "nations" \notin DOMAIN saved.worldState
               THEN \* restoreWorldState throws in its second loop
                    [same EXCEPT !.manager = restored,
                                 !.locations = restoreLocations(locs, saved.worldState.locations)]
               ELSE [manager |-> restored,
                     locations |-> restoreLocations(locs, saved.worldState.locations),
                     nations |-> restoreNations(nats, saved.worldState.nations),
                     result |-> "state",
                     notes |-> << Note("game:loaded", NoTime, 0, "") >>]

(***************************************************************************)
(* ScenarioEngine                                                          *)
(***************************************************************************)
\* Array.prototype.sort with (a, b) => a.time - b.time: a stable sort.
RECURSIVE InsertByTime(_, _)
InsertByTime(sorted, e) ==
    IF sorted = << >> THEN << e >>
    ELSE IF Head(sorted).time <= e.time
         THEN << Head(sorted) >> \o InsertByTime(Tail(sorted), e)
         ELSE << e >> \o sorted

RECURSIVE StableSort(_)
StableSort(events) ==
    IF events = << >> THEN << >>
    ELSE InsertByTime(StableSort(SubSeq(events, 1, Len(events) - 1)),
                      events[Len(events)])

SortKeepOrder(events) == events

SortByTime(events) == StableSort(events)

\* The conversion with the minute rounded up to the next one.
gameTimeToScenarioTimeCeil(time) ==
    (time.day - 1) * 24 * MS_PER_GAME_HOUR + time.hour * MS_PER_GAME_HOUR
        + ((time.minute + 1) * MS_PER_GAME_HOUR) \div 60

gameTimeToScenarioTime(time) ==
    (time.day - 1) * 24 * MS_PER_GAME_HOUR + time.hour * MS_PER_GAME_HOUR
        + (time.minute * MS_PER_GAME_HOUR) \div 60

\* triggerEvent: marks the id completed and publishes scenario:eventTriggered.
\* eng is [state, pendingEvents, notes].
\* triggerEvent without the completedEventIds.add.
triggerEventUnrecorded(eng, event, currentTime) ==
    [eng EXCEPT
       !.notes = Append(@, Note("scenario:eventTriggered", NoTime, currentTime, event.id))]

triggerEvent(eng, event, currentTime) ==
    [eng EXCEPT
       !.state.completedEventIds = @ \cup {event.id},
       !.notes = Append(@, Note("scenario:eventTriggered", NoTime, currentTime, event.id))]

completeScenarioNoFlag(eng, sid) ==
    [eng EXCEPT
       !.notes = Append(@, Note("scenario:complete", NoTime,
                                eng.state.currentTime, sid))]

completeScenario(eng, sid) ==
    [eng EXCEPT
       !.state.isComplete = TRUE,
       !.notes = Append(@, Note("scenario:complete", NoTime,
                                eng.state.currentTime, sid))]

\* The while loop of handleTick.
RECURSIVE TriggerLoop(_, _)
TriggerLoop(eng, scenarioTime) ==
    IF Len(eng.pendingEvents) > 0
    THEN LET nextEvent == eng.pendingEvents[1] IN
         IF nextEvent.time <= scenarioTime
         THEN TriggerLoop(
                triggerEvent([eng EXCEPT !.pendingEvents = Tail(@)],
                             nextEvent, scenarioTime),
                scenarioTime)
         ELSE eng
    ELSE eng

\* The loop with "if" in place of "while": at most one event per tick.
TriggerFirstOnly(eng, scenarioTime) ==
    IF Len(eng.pendingEvents) > 0 /\ eng.pendingEvents[1].time <= scenarioTime
    THEN triggerEvent([eng EXCEPT !.pendingEvents = Tail(@)],
                      eng.pendingEvents[1], scenarioTime)
    ELSE eng

\* The loop without the shift(): due events are triggered but stay pending.
RECURSIVE TriggerAll(_, _, _)
TriggerAll(eng, due, scenarioTime) ==
    IF due = << >> THEN eng
    ELSE TriggerAll(triggerEvent(eng, Head(due), scenarioTime), Tail(due), scenarioTime)

TriggerKeepPending(eng, scenarioTime) ==
    LET notDue(e) == e.time > scenarioTime
        isDue(e) == e.time <= scenarioTime
        fired == TriggerAll(eng, SelectSeq(eng.pendingEvents, isDue), scenarioTime)
    IN  IF SelectSeq(eng.pendingEvents, notDue) = << >>
        THEN [fired EXCEPT !.pendingEvents = << >>]
        ELSE fired

RunTriggerLoop(eng, scenarioTime) == TriggerLoop(eng, scenarioTime)

\* handleTick({time}): the engine's game:tick listener.
handleTick(sc, st, pending, time) ==
    IF sc = NoScenario \/ st = NoState \/ st.isComplete
    THEN [state |-> st, pendingEvents |-> pending, notes |-> << >>]
    ELSE LET scenarioTime == gameTimeToScenarioTime(time)
             eng0 == [state |-> [st EXCEPT !.currentTime = scenarioTime],
                      pendingEvents |-> pending, notes |-> << >>]
             eng1 == RunTriggerLoop(eng0, scenarioTime)
         IN  IF Len(eng1.pendingEvents) = 0 /\ ~eng1.state.isComplete
             THEN completeScenario(eng1, sc)
             ELSE eng1

(***************************************************************************)
(* GameLoop                                                                *)
(***************************************************************************)
\* The day/hour/minute that updateGameTime derives from elapsedMs.
\* totalGameMinutes = elapsedMs / MS_PER_GAME_HOUR * MINUTES_PER_HOUR is a
\* real number in the code; its floors are taken here on the integer ms.
TimeOfUnwrapped(elapsedMs) ==
    LET totalGameHours == elapsedMs \div MS_PER_GAME_HOUR IN
    [elapsedMs |-> elapsedMs,
     minute |-> (elapsedMs % MS_PER_GAME_HOUR) \div MS_PER_GAME_MINUTE,
     hour |-> totalGameHours,
     day |-> (totalGameHours \div HOURS_PER_DAY) + 1]

TimeOf(elapsedMs) ==
    LET totalGameHours == elapsedMs \div MS_PER_GAME_HOUR IN
    [elapsedMs |-> elapsedMs,
     minute |-> (elapsedMs % MS_PER_GAME_HOUR) \div MS_PER_GAME_MINUTE,
     hour |-> totalGameHours % HOURS_PER_DAY,
     day |-> (totalGameHours \div HOURS_PER_DAY) + 1]

\* updateGameTime(deltaMs): the new GameTime and the notifications published.
updateGameTime(time, deltaMs) ==
    LET previousHour == time.hour
        previousDay == time.day
        newTime == TimeOf(time.elapsedMs + deltaMs)
        hourNote == IF newTime.hour # previousHour
                    THEN << Note("game:hourChanged", newTime, previousHour, "") >>
                    ELSE << >>
        dayNote == IF newTime.day # previousDay
                   THEN << Note("game:dayChanged", newTime, previousDay, "") >>
                   ELSE << >>
    IN  [gameTime |-> newTime, notes |-> hourNote \o dayNote]

\* The body of tick() once isRunning is known to be true: the notifications
\* in publication order, game:tick ahead of what its listeners publish.
TickNotesTickFirst(upd, gameDeltaMs, eng) ==
    << Note("game:tick", upd.gameTime, gameDeltaMs, "") >> \o upd.notes \o eng.notes

TickNotes(upd, gameDeltaMs, eng) ==
    upd.notes \o << Note("game:tick", upd.gameTime, gameDeltaMs, "") >> \o eng.notes

\* tick(): running and last are isRunning and lastTickTime as the caller left them.
tick(running, last) ==
    IF ~running
    THEN [ran |-> FALSE, lastTickTime |-> last, gameTime |-> gameTime,
          state |-> state, pendingEvents |-> pendingEvents, notes |-> << >>]
    ELSE LET currentTime == now
             realDeltaMs == currentTime - last
             gameDeltaMs == realDeltaMs * speedMultiplier
             upd == updateGameTime(gameTime, gameDeltaMs)
             eng == handleTick(scenario, state, pendingEvents, upd.gameTime)
         IN  [ran |-> TRUE, lastTickTime |-> currentTime, gameTime |-> upd.gameTime,
              state |-> eng.state, pendingEvents |-> eng.pendingEvents,
              notes |-> TickNotes(upd, gameDeltaMs, eng)]

\* requestAnimationFrame: an id that names no other outstanding callback.
FreshId(queue, held) == CHOOSE i \in 1..(Cardinality(queue) + 2) : i \notin queue \cup {held}

EventIdsIn(notes) ==
    LET isTrig(n) == n.name = "scenario:eventTriggered"
        trig == SelectSeq(notes, isTrig)
    IN  [i \in 1..Len(trig) |-> trig[i].id]

CompletesIn(notes) ==
    LET isDone(n) == n.name = "scenario:complete" IN Len(SelectSeq(notes, isDone))

\* Effect of a call of tick() on the variables the engine and the log own.
ApplyTick(t, after) ==
    /\ gameTime' = t.gameTime
    /\ lastTickTime' = t.lastTickTime
    /\ state' = t.state
    /\ pendingEvents' = t.pendingEvents
    /\ log' = t.notes \o after
    /\ triggered' = triggered \o EventIdsIn(t.notes)
    /\ completeCount' = completeCount + CompletesIn(t.notes)

Init ==
    /\ now = 0
    /\ rafQueue = {}
    /\ isRunning = FALSE
    /\ speedMultiplier = 1
    /\ gameTime = [elapsedMs |-> 0, day |-> 1, hour |-> 0, minute |-> 0]
    /\ lastTickTime = 0
    /\ animationFrameId = NULL_ID
    /\ scenario = NoScenario
    /\ state = NoState
    /\ pendingEvents = << >>
    /\ log = << >>
    /\ triggered = << >>
    /\ completeCount = 0
    /\ idle = 0
    /\ resumedAt = NoRef
    /\ restoredFrom = NoTime
    /\ lastCall = NoCall
    /\ listeners = [event \in BusEvents |-> << >>]
    /\ wrapperCount = 0
    /\ invocations = << >>
    /\ onceRuns = [n \in 1..MaxOnce |-> 0]
    /\ emitted = NoEvent
    /\ escaped = FALSE
    /\ locations = EmptyMap
    /\ nations = EmptyMap
    /\ baseline = EmptyMap
    /\ listenerThrew = FALSE
    /\ lastUpdate = NoUpdate
    /\ resources = DEFAULT_FLEET_RESOURCES
    /\ regenCount = 0
    /\ resourceCall = NoResourceCall
    /\ resourceCallCount = 0
    /\ manager = [currentPhase |-> 1, runState |-> "paused", stats |-> DEFAULT_GAME_STATS]
    /\ storage = NoItem
    /\ saveCall = NoSaveCall
    /\ handled = << >>
    /\ uncaught = FALSE

\* Real time passes (the host runs no callback of the program).
Elapse(d, maxNow, maxGap) ==
    /\ now + d <= maxNow
    /\ now + d - lastTickTime <= maxGap
    /\ now' = now + d
    /\ idle' = IF isRunning THEN idle ELSE idle + d
    /\ log' = << >>
    /\ restoredFrom' = NoTime
    /\ UNCHANGED <<rafQueue, clockVars, engineVars, triggered, completeCount, resumedAt>>

\* start() and resume() with lastTickTime left as it was.
ResumeKeepLast(note) ==
    /\ restoredFrom' = NoTime
    /\ IF isRunning
       THEN /\ log' = << >>
            /\ UNCHANGED <<now, rafQueue, clockVars, engineVars, triggered,
                           completeCount, resumeGhost>>
       ELSE LET t == tick(TRUE, lastTickTime)
                id == FreshId(rafQueue, animationFrameId)
            IN  /\ isRunning' = TRUE
                /\ ApplyTick(t, << Note(note, t.gameTime, 0, "") >>)
                /\ animationFrameId' = id
                /\ rafQueue' = rafQueue \cup {id}
                /\ resumedAt' = now
                /\ UNCHANGED <<now, speedMultiplier, scenario, idle>>

\* start() and resume() without the early return when already running.
StartUnguarded(note) ==
    /\ restoredFrom' = NoTime
    /\ LET t == tick(TRUE, now)
           id == FreshId(rafQueue, animationFrameId)
       IN  /\ isRunning' = TRUE
           /\ ApplyTick(t, << Note(note, t.gameTime, 0, "") >>)
           /\ animationFrameId' = id
           /\ rafQueue' = rafQueue \cup {id}
           /\ resumedAt' = now
           /\ UNCHANGED <<now, speedMultiplier, scenario, idle>>

\* start() and resume() have the same body but for the notification.
StartOrResume(note) ==
    /\ restoredFrom' = NoTime
    /\ IF isRunning
       THEN /\ log' = << >>
            /\ UNCHANGED <<now, rafQueue, clockVars, engineVars, triggered,
                           completeCount, resumeGhost>>
       ELSE LET t == tick(TRUE, now)
                id == FreshId(rafQueue, animationFrameId)
            IN  /\ isRunning' = TRUE
                /\ ApplyTick(t, << Note(note, t.gameTime, 0, "") >>)
                /\ animationFrameId' = id
                /\ rafQueue' = rafQueue \cup {id}
                /\ resumedAt' = now
                /\ UNCHANGED <<now, speedMultiplier, scenario, idle>>

start == StartOrResume("game:started")

resume == StartOrResume("game:resumed")

\* pause(), publishing whenRunning when it took effect; stop() goes on to
\* publish game:stopped whether or not the clock was running.
PauseThen(whenRunning, always) ==
    /\ restoredFrom' = NoTime
    /\ IF ~isRunning
       THEN /\ log' = always
            /\ UNCHANGED <<now, rafQueue, clockVars, engineVars, triggered,
                           completeCount, resumeGhost>>
       ELSE /\ isRunning' = FALSE
            /\ rafQueue' = rafQueue \ {animationFrameId}
            /\ animationFrameId' = NULL_ID
            /\ log' = whenRunning \o always
            /\ idle' = 0
            /\ resumedAt' = NoRef
            /\ UNCHANGED <<now, speedMultiplier, gameTime, lastTickTime, engineVars,
                           triggered, completeCount>>

pause == PauseThen(<< Note("game:paused", gameTime, 0, "") >>, << >>)

stop == PauseThen(<< Note("game:paused", gameTime, 0, "") >>,
                  << Note("game:stopped", gameTime, 0, "") >>)

\* The host runs one outstanding animation-frame callback: () => this.tick().
Frame ==
    /\ rafQueue # {}
    /\ \E id \in rafQueue :
         LET t == tick(isRunning, lastTickTime)
             next == FreshId(rafQueue \ {id}, animationFrameId)
         IN  /\ ApplyTick(t, << >>)
             /\ IF t.ran
                THEN /\ animationFrameId' = next
                     /\ rafQueue' = (rafQueue \ {id}) \cup {next}
                     /\ resumedAt' = NoRef
                ELSE /\ rafQueue' = rafQueue \ {id}
                     /\ UNCHANGED <<animationFrameId, resumedAt>>
    /\ restoredFrom' = NoTime
    /\ UNCHANGED <<now, isRunning, speedMultiplier, scenario, idle>>

\* setSpeedMultiplier without the early return on an equal multiplier.
setSpeedAlways(multiplier) ==
    /\ speedMultiplier' = multiplier
    /\ log' = << SpeedNote(multiplier, speedMultiplier) >>
    /\ restoredFrom' = NoTime
    /\ UNCHANGED <<now, rafQueue, isRunning, gameTime, lastTickTime, animationFrameId,
                   engineVars, triggered, completeCount, resumeGhost>>

setSpeedMultiplier(multiplier) ==
    /\ IF multiplier = speedMultiplier
       THEN /\ log' = << >>
            /\ UNCHANGED speedMultiplier
       ELSE /\ speedMultiplier' = multiplier
            /\ log' = << SpeedNote(multiplier, speedMultiplier) >>
    /\ restoredFrom' = NoTime
    /\ UNCHANGED <<now, rafQueue, isRunning, gameTime, lastTickTime, animationFrameId,
                   engineVars, triggered, completeCount, resumeGhost>>

\* restoreTime with the hour/day bookkeeping of a tick added.
restoreTimeAsTick(time) ==
    /\ gameTime' = time
    /\ log' = updateGameTime(gameTime, time.elapsedMs - gameTime.elapsedMs).notes
                \o << Note("game:timeRestored", time, 0, "") >>
    /\ restoredFrom' = gameTime
    /\ UNCHANGED <<now, rafQueue, isRunning, speedMultiplier, lastTickTime,
                   animationFrameId, engineVars, triggered, completeCount, resumeGhost>>

restoreTime(time) ==
    /\ gameTime' = time
    /\ log' = << Note("game:timeRestored", time, 0, "") >>
    /\ restoredFrom' = gameTime
    /\ UNCHANGED <<now, rafQueue, isRunning, speedMultiplier, lastTickTime,
                   animationFrameId, engineVars, triggered, completeCount, resumeGhost>>

loadScenario(s) ==
    /\ scenario' = s.id
    /\ state' = [scenarioId |-> s.id, currentTime |-> 0,
                 completedEventIds |-> {}, isComplete |-> FALSE]
    /\ pendingEvents' = SortByTime(s.events)
    /\ log' = << Note("scenario:loaded", NoTime, Len(s.events), s.id) >>
    /\ triggered' = << >>
    /\ completeCount' = 0
    /\ restoredFrom' = NoTime
    /\ UNCHANGED <<now, rafQueue, clockVars, resumeGhost>>

\* if (this.scenario) fails: nothing is done.
resetNothing ==
    /\ log' = << >>
    /\ restoredFrom' = NoTime
    /\ UNCHANGED <<engineVars, triggered, completeCount, now, rafQueue, clockVars,
                   resumeGhost>>

\* A reset that puts the events back and keeps the completed ids.
resetKeepCompleted ==
    IF scenario = NoScenario
    THEN resetNothing
    ELSE /\ state' = [state EXCEPT !.currentTime = 0, !.isComplete = FALSE]
         /\ pendingEvents' = SortByTime(ScenarioById(scenario).events)
         /\ log' = << Note("scenario:loaded", NoTime,
                           Len(ScenarioById(scenario).events), scenario) >>
         /\ triggered' = << >>
         /\ completeCount' = 0
         /\ restoredFrom' = NoTime
         /\ UNCHANGED <<scenario, now, rafQueue, clockVars, resumeGhost>>

reset ==
    IF scenario = NoScenario
    THEN resetNothing
    ELSE loadScenario(ScenarioById(scenario))

\* The events of the scenario:eventTriggered notifications among notes.
TriggeredEvents(sid, notes) ==
    LET ids == EventIdsIn(notes) IN [i \in 1..Len(ids) |-> EventOf(sid, ids[i])]

\* The scene's listener reacts to what the step published.
SceneListener ==
    LET world == dispatchAll([locations |-> locations, threw |-> FALSE],
                             TriggeredEvents(scenario, log'))
    IN  /\ locations' = world.locations
        /\ listenerThrew' = world.threw

\* What a step leaves alone when the call it makes is not recorded.
Unrecorded ==
    /\ SceneListener
    /\ UNCHANGED <<lastCall, busVars, nations, baseline, lastUpdate, managerVars>>

Next ==
    \/ (\E d \in RealDeltas : Elapse(d, MaxNow, MaxFrameGap)) /\ Unrecorded
    \/ start /\ Unrecorded
    \/ pause /\ Unrecorded
    \/ resume /\ Unrecorded
    \/ stop /\ Unrecorded
    \/ Frame /\ Unrecorded
    \/ (\E m \in Speeds : setSpeedMultiplier(m)) /\ Unrecorded
    \/ (\E e \in RestoreElapsed : restoreTime(TimeOf(e))) /\ Unrecorded
    \/ (\E s \in TestScenarios : loadScenario(s)) /\ Unrecorded
    \/ reset /\ Unrecorded

Spec == Init /\ [][Next]_vars

\* The scene's run of the authored scenario: it is loaded once and the clock
\* is driven frame by frame, at 1x or fast-forwarded.
ElapseFC ==
    /\ gameTime.elapsedMs <= MaxElapsedFC
    /\ \E d \in RealDeltasFC : Elapse(d, MaxNowFC, MaxFrameGapFC)

loadFirstContact ==
    /\ scenario = NoScenario
    /\ loadScenario(firstContactScenario)

NextFC ==
    \/ ElapseFC /\ Unrecorded
    \/ loadFirstContact /\ Unrecorded
    \/ start /\ Unrecorded
    \/ pause /\ Unrecorded
    \/ Frame /\ Unrecorded
    \/ (\E m \in SpeedsFC : setSpeedMultiplier(m)) /\ Unrecorded

SpecFC == Init /\ [][NextFC]_vars

\* The clock alone, driven through its public methods by the playback
\* controls and the host's frames; each step records the method it called.
Called(method) ==
    /\ lastCall' = method
    /\ SceneListener
    /\ UNCHANGED <<busVars, nations, baseline, lastUpdate, managerVars>>

NextClock ==
    \/ (\E d \in RealDeltas : Elapse(d, MaxNowClock, MaxFrameGap)) /\ Called("elapse")
    \/ start /\ Called("start")
    \/ pause /\ Called("pause")
    \/ resume /\ Called("resume")
    \/ stop /\ Called("stop")
    \/ Frame /\ Called("tick")
    \/ (\E m \in Speeds : setSpeedMultiplier(m)) /\ Called("setSpeedMultiplier")

SpecClock == Init /\ [][NextClock]_vars

\* The event bus alone, with callbacks subscribed, unsubscribed and
\* notified in any order.
Quiet ==
    /\ invocations' = << >>
    /\ emitted' = NoEvent
    /\ escaped' = FALSE
    /\ UNCHANGED <<onceRuns, sceneVars, worldVars, managerVars>>

\* A callback that emits its own event again is only ever subscribed through
\* once(): subscribed with on() it would not return.
on(event, callback) ==
    /\ Body(callback) # "emit"
    /\ Len(listeners[event]) < MaxListeners
    /\ listeners' = [listeners EXCEPT ![event] = add(@, Listener(callback, Direct))]
    /\ UNCHANGED wrapperCount
    /\ Quiet

off(event, callback) ==
    /\ listeners' = [listeners EXCEPT ![event] = delete(@, Listener(callback, Direct))]
    /\ UNCHANGED wrapperCount
    /\ Quiet

once(event, callback) ==
    /\ wrapperCount < MaxOnce
    /\ Len(listeners[event]) < MaxListeners
    /\ wrapperCount' = wrapperCount + 1
    /\ listeners' = [listeners EXCEPT
                       ![event] = add(@, Listener(callback, wrapperCount + 1))]
    /\ Quiet

emit(event) ==
    LET r == emitAt([listeners |-> listeners, invocations |-> << >>,
                     onceRuns |-> onceRuns], event, 0)
    IN  /\ listeners' = r.bus.listeners
        /\ invocations' = r.bus.invocations
        /\ onceRuns' = r.bus.onceRuns
        /\ emitted' = event
        /\ escaped' = r.threw
        /\ UNCHANGED <<wrapperCount, sceneVars, worldVars, managerVars>>

clear ==
    /\ listeners' = [event \in BusEvents |-> << >>]
    /\ UNCHANGED wrapperCount
    /\ Quiet

NextBus ==
    \/ \E event \in BusEvents, callback \in Callbacks : on(event, callback)
    \/ \E event \in BusEvents, callback \in Callbacks : off(event, callback)
    \/ \E event \in BusEvents, callback \in Callbacks : once(event, callback)
    \/ \E event \in BusEvents : emit(event)
    \/ clear

SpecBus == Init /\ [][NextBus]_vars

\* A call that touches neither the clock, the engine nor the bus.
Silent ==
    /\ log' = << >>
    /\ restoredFrom' = NoTime
    /\ UNCHANGED <<now, rafQueue, clockVars, engineVars, triggered, completeCount,
                   resumeGhost, busVars, managerVars>>

initialize(locationData, nationData) ==
    /\ locations' = [id \in {locationData[i].id : i \in 1..Len(locationData)} |->
                       initLocationState(LastWithId(locationData, id))]
    /\ nations' = [id \in {nationData[i].id : i \in 1..Len(nationData)} |->
                     initNationState(LastWithId(nationData, id))]

\* The scenario run with its effects on the world: the scene initializes the
\* world data, then loads a scenario and drives the clock at 100x (game
\* hours are 600 ms of real time apart).
setupWorld ==
    /\ scenario = NoScenario
    /\ DOMAIN locations = {}
    /\ initialize(StrategicLocations, NationsData)
    /\ listenerThrew' = FALSE
    /\ Silent
    /\ UNCHANGED <<lastCall, baseline, lastUpdate>>

Loaded ==
    /\ baseline' = locations
    /\ listenerThrew' = FALSE
    /\ UNCHANGED <<locations, nations, lastCall, busVars, lastUpdate, managerVars>>

loadWithEffects ==
    /\ DOMAIN locations # {}
    /\ \E s \in EffectScenarios : loadScenario(s)
    /\ Loaded

NextFX ==
    \/ setupWorld
    \/ loadWithEffects
    \/ reset /\ Loaded
    \/ (\E d \in RealDeltasFX : Elapse(d, MaxNowFX, MaxFrameGapFX)) /\ Unrecorded
    \/ start /\ Unrecorded
    \/ pause /\ Unrecorded
    \/ Frame /\ Unrecorded
    \/ (\E m \in SpeedsFX : setSpeedMultiplier(m)) /\ Unrecorded

SpecFX == Init /\ [][NextFX]_vars

\* The world data alone, written through its update methods, by the scene's
\* listener and by a restore from a save, in any order.
UpdateLocationIds == {"usa-norad", "atlantis"}
LocationUpdates ==
    { [controlledBy |-> "alien", stability |-> 40],
      [coordinates |-> [lat |-> 10]],
      [id |-> "uk-london", name |-> "London"],
      [garrison |-> "3rd-fleet"] }

UpdateNationIds == {"usa", "narnia"}
NationUpdates ==
    { [government |-> "collapsed", stability |-> 20],
      [resistance |-> 35] }

\* The world state of the saves handed to restoreWorldState.
SavedWorlds ==
    { [locations |->
         [id \in {"usa-norad", "atlantis"} |->
            [status |-> "occupied", controlledBy |-> "alien", stability |-> 55]],
       nations |->
         [id \in {"usa"} |->
            [government |-> "occupied", militaryStrength |-> 10, stability |-> 30,
             resistance |-> 60, relations |-> "resistant"]]] }

\* The events that reach the listener: those of two of the scenarios.
WorldEvents == Range(ScenarioById("two-step").events) \cup Range(ScenarioById("stale").events)

WorldCall(method) ==
    /\ lastCall' = method
    /\ Silent
    /\ UNCHANGED baseline

updateLocation(id, updates) ==
    /\ locations' = IF id \in DOMAIN locations
                    THEN [locations EXCEPT ![id] = assign(@, updates)]
                    ELSE locations
    /\ lastUpdate' = [id |-> id, updates |-> updates]
    /\ UNCHANGED <<nations, listenerThrew>>

updateNation(id, updates) ==
    /\ nations' = IF id \in DOMAIN nations
                  THEN [nations EXCEPT ![id] = assign(@, updates)]
                  ELSE nations
    /\ lastUpdate' = [id |-> id, updates |-> updates]
    /\ UNCHANGED <<locations, listenerThrew>>

\* emit('scenario:eventTriggered', { event }) as it reaches the scene's listener.
eventTriggered(event) ==
    LET world == onEventTriggered([locations |-> locations, threw |-> FALSE], event)
    IN  /\ locations' = world.locations
        /\ listenerThrew' = world.threw
        /\ lastUpdate' = NoUpdate
        /\ UNCHANGED nations

restoreWorldState(worldState) ==
    /\ locations' = restoreLocations(locations, worldState.locations)
    /\ nations' = restoreNations(nations, worldState.nations)
    /\ lastUpdate' = NoUpdate
    /\ UNCHANGED listenerThrew

NextWorld ==
    \/ /\ initialize(StrategicLocations, NationsData)
       /\ lastUpdate' = NoUpdate
       /\ UNCHANGED listenerThrew
       /\ WorldCall("initialize")
    \/ (\E id \in UpdateLocationIds, updates \in LocationUpdates :
          updateLocation(id, updates)) /\ WorldCall("updateLocation")
    \/ (\E id \in UpdateNationIds, updates \in NationUpdates :
          updateNation(id, updates)) /\ WorldCall("updateNation")
    \/ (\E event \in WorldEvents : eventTriggered(event)) /\ WorldCall("eventTriggered")
    \/ (\E worldState \in SavedWorlds : restoreWorldState(worldState))
          /\ WorldCall("restoreWorldState")

SpecWorld == Init /\ [][NextWorld]_vars

(***************************************************************************)
(* The clock, the engine and the scene's listeners with handlers that act  *)
(* during a tick.                                                          *)
(*                                                                         *)
(* A call of tick() runs, inside emit, the engine's handleTick, the scene's *)
(* listeners and whatever else is subscribed, and each of them can throw   *)
(* or call back into the clock before tick() goes on.  The run of one call *)
(* is computed on a record m that holds what the call can read and write:  *)
(* the fields of the clock, the engine and the world data, the             *)
(* notifications published so far (notes), the handlers that have not      *)
(* acted yet (plan), those that have (handled), and whether an exception   *)
(* is on its way up the stack (thrown).  A handler is subscribed after the *)
(* scene's own listeners, or is one of the engine's option callbacks.      *)
(***************************************************************************)
OnEventTriggeredOption == "options.onEventTriggered"
OnScenarioCompleteOption == "options.onScenarioComplete"

\* What a handler can be subscribed to or passed as.  (game:dayChanged is
\* published by the same emit as game:hourChanged; the runs here end before
\* the first day does.)
HandlerEvents ==
    {"game:tick", "game:hourChanged", "scenario:eventTriggered", "scenario:complete",
     OnEventTriggeredOption, OnScenarioCompleteOption}

Behaviours == {"throw", "pause", "pauseResume"}

Handler(event, does) == [event |-> event, does |-> does]

\* In one call into the clock at most one handler acts, at the first
\* publications of its event.
Plans ==
    { << >> } \cup
    { [i \in 1..n |-> Handler(e, b)] :
        e \in HandlerEvents, b \in Behaviours, n \in 1..MaxActs }

WeaponTypes == {"attack", "destroy", "occupy", "hack"}

RECURSIVE runTick(_)
RECURSIVE publish(_, _)
RECURSIVE runHandlers(_, _)
RECURSIVE behave(_, _)
RECURSIVE runPause(_)
RECURSIVE runResume(_, _)
RECURSIVE runHandleTick(_, _)
RECURSIVE runTriggerLoop(_, _)
RECURSIVE runTriggerEvent(_, _, _)
RECURSIVE runCompleteScenario(_)
RECURSIVE runOption(_, _)
RECURSIVE publishAll(_, _)

\* The exception goes on up the stack.
uncaughtError(m) == m

\* catch (error) { console.error(...) } of emit
catch(m) == [m EXCEPT !.thrown = FALSE]

\* The scene's listener going on to the location's update only while the
\* clock is running.
sceneListenerWhileRunning(m, event) ==
    LET fed == [m EXCEPT !.notes = Append(@, Note("scene:feeds", NoTime, 0, event.id))]
    IN  IF m.isRunning /\ HasEffect(event)
           /\ event.effect.locationId \in DOMAIN m.locations
        THEN [fed EXCEPT
                !.locations = onEventTriggered([locations |-> @, threw |-> FALSE],
                                               event).locations,
                !.notes = @ \o << Note("scene:location", NoTime, 0, event.id),
                                  Note("scene:marker", NoTime, 0, event.id) >>]
        ELSE fed

\* The scene's scenario:eventTriggered listener: the feeds, the weapon
\* effects, the location's update and the marker, each recorded as it is done.
sceneListener(m, event) ==
    LET fed == [m EXCEPT !.notes = Append(@, Note("scene:feeds", NoTime, 0, event.id))]
        fired == IF /\ "locationId" \in DOMAIN event
                    /\ event.locationId \in DOMAIN m.locations
                    /\ event.type \in WeaponTypes
                 THEN [fed EXCEPT
                         !.notes = Append(@, Note("scene:weapons", NoTime, 0, event.id))]
                 ELSE fed
    IN  IF HasEffect(event) /\ event.effect.locationId \in DOMAIN m.locations
        THEN [fired EXCEPT
                !.locations = onEventTriggered([locations |-> @, threw |-> FALSE],
                                               event).locations,
                !.notes = @ \o << Note("scene:location", NoTime, 0, event.id),
                                  Note("scene:marker", NoTime, 0, event.id) >>]
        ELSE fired

\* The one value of a set of one value.  The result of a call is named by
\* a bound variable wherever it is used more than once.
Only(S) == CHOOSE x \in S : TRUE

\* What a handler does when it is called.
behave(m, does) ==
    CASE does = "throw" -> [m EXCEPT !.thrown = TRUE]
      [] does = "pause" -> runPause(m)
      [] does = "pauseResume" ->
           Only({ runResume(paused, "game:resumed") : paused \in {runPause(m)} })

\* The handlers of an event that have not acted yet, each called in turn
\* inside the try of emit.
runHandlers(m, event) ==
    IF \E i \in 1..Len(m.plan) : m.plan[i].event = event
    THEN LET i == CHOOSE k \in 1..Len(m.plan) :
                     /\ m.plan[k].event = event
                     /\ \A j \in 1..(k - 1) : m.plan[j].event # event
             taken == [m EXCEPT
                         !.plan = SubSeq(@, 1, i - 1) \o SubSeq(@, i + 1, Len(@)),
                         !.handled = Append(@, m.plan[i])]
         IN  Only({ runHandlers(catch(done), event) :
                      done \in {behave(taken, m.plan[i].does)} })
    ELSE m

\* One of the engine's option callbacks, called outside any try.
runOption(m, option) ==
    IF \E i \in 1..Len(m.plan) : m.plan[i].event = option
    THEN LET i == CHOOSE k \in 1..Len(m.plan) :
                     /\ m.plan[k].event = option
                     /\ \A j \in 1..(k - 1) : m.plan[j].event # option
             taken == [m EXCEPT
                         !.plan = SubSeq(@, 1, i - 1) \o SubSeq(@, i + 1, Len(@)),
                         !.handled = Append(@, m.plan[i])]
         IN  behave(taken, m.plan[i].does)
    ELSE m

\* emit(event, payload): the listeners in the order of their subscription,
\* the engine's and the scene's ahead of the handlers.
publish(m, note) ==
    LET told == [m EXCEPT !.notes = Append(@, note)]
    IN  Only({ runHandlers(own, note.name) :
                 own \in { CASE note.name = "game:tick" ->
                                  catch(runHandleTick(told, note.time))
                             [] note.name = "scenario:eventTriggered" ->
                                  catch(sceneListener(told, EventOf(scenario, note.id)))
                             [] OTHER -> told } })

publishAll(m, notes) ==
    IF notes = << >> THEN m
    ELSE Only({ publishAll(told, Tail(notes)) : told \in {publish(m, Head(notes))} })

runPause(m) ==
    IF ~m.isRunning THEN m
    ELSE publish([m EXCEPT !.isRunning = FALSE,
                           !.rafQueue = @ \ {m.animationFrameId},
                           !.animationFrameId = NULL_ID],
                 Note("game:paused", m.gameTime, 0, ""))

runResume(m, name) ==
    IF m.isRunning THEN m
    ELSE Only({ IF ticked.thrown THEN ticked
                ELSE publish(ticked, Note(name, ticked.gameTime, 0, "")) :
                  ticked \in {runTick([m EXCEPT !.isRunning = TRUE,
                                                !.lastTickTime = now])} })

\* requestAnimationFrame(() => this.tick()) at the end of tick().
scheduleNext(m) ==
    LET id == FreshId(m.rafQueue, m.animationFrameId)
    IN  [m EXCEPT !.animationFrameId = id, !.rafQueue = @ \cup {id}]

runTick(m) ==
    IF ~m.isRunning THEN m
    ELSE LET gameDeltaMs == (now - m.lastTickTime) * speedMultiplier
             upd == updateGameTime(m.gameTime, gameDeltaMs)
         IN  Only({ IF told.thrown THEN told ELSE scheduleNext(told) :
                      told \in { publishAll(
                                   [m EXCEPT !.lastTickTime = now,
                                             !.gameTime = upd.gameTime],
                                   upd.notes \o << Note("game:tick", upd.gameTime,
                                                        gameDeltaMs, "") >>) } })

runHandleTick(m, time) ==
    IF scenario = NoScenario \/ m.state = NoState \/ m.state.isComplete
    THEN m
    ELSE LET scenarioTime == gameTimeToScenarioTime(time)
         IN  Only({ IF ~looped.thrown /\ Len(looped.pendingEvents) = 0
                       /\ ~looped.state.isComplete
                    THEN runCompleteScenario(looped)
                    ELSE looped :
                      looped \in { runTriggerLoop(
                                     [m EXCEPT !.state.currentTime = scenarioTime],
                                     scenarioTime) } })

runTriggerLoop(m, scenarioTime) ==
    IF ~m.thrown /\ Len(m.pendingEvents) > 0
       /\ m.pendingEvents[1].time <= scenarioTime
    THEN Only({ runTriggerLoop(fired, scenarioTime) :
                  fired \in { runTriggerEvent([m EXCEPT !.pendingEvents = Tail(@)],
                                              m.pendingEvents[1], scenarioTime) } })
    ELSE m

runTriggerEvent(m, event, currentTime) ==
    Only({ IF told.thrown THEN told ELSE runOption(told, OnEventTriggeredOption) :
             told \in { publish(
                          [m EXCEPT !.state.completedEventIds = @ \cup {event.id}],
                          Note("scenario:eventTriggered", NoTime, currentTime,
                               event.id)) } })

runCompleteScenario(m) ==
    Only({ IF told.thrown THEN told ELSE runOption(told, OnScenarioCompleteOption) :
             told \in { publish([m EXCEPT !.state.isComplete = TRUE],
                                Note("scenario:complete", NoTime, m.state.currentTime,
                                     scenario)) } })

\* The call as it finds the program, and the program as the call leaves it.
Entered(plan) ==
    [isRunning |-> isRunning, lastTickTime |-> lastTickTime, gameTime |-> gameTime,
     animationFrameId |-> animationFrameId, rafQueue |-> rafQueue,
     state |-> state, pendingEvents |-> pendingEvents, locations |-> locations,
     notes |-> << >>, plan |-> plan, handled |-> << >>, thrown |-> FALSE]

Returned(m) ==
    /\ isRunning' = m.isRunning
    /\ lastTickTime' = m.lastTickTime
    /\ gameTime' = m.gameTime
    /\ animationFrameId' = m.animationFrameId
    /\ rafQueue' = m.rafQueue
    /\ state' = m.state
    /\ pendingEvents' = m.pendingEvents
    /\ locations' = m.locations
    /\ log' = m.notes
    /\ triggered' = triggered \o EventIdsIn(m.notes)
    /\ completeCount' = completeCount + CompletesIn(m.notes)
    /\ handled' = m.handled
    /\ uncaught' = m.thrown
    /\ listenerThrew' = FALSE
    /\ restoredFrom' = NoTime
    /\ UNCHANGED <<now, speedMultiplier, scenario, resumeGhost, lastCall, busVars,
                   nations, baseline, lastUpdate, resourceVars, saveVars>>

\* start() and resume() from outside a tick, with the handlers of the run.
startWith(plan) ==
    /\ Cardinality(rafQueue) <= MaxOutstanding
    /\ \E m \in {runResume(Entered(plan), "game:started")} : Returned(m)

resumeWith(plan) ==
    /\ Cardinality(rafQueue) <= MaxOutstanding
    /\ \E m \in {runResume(Entered(plan), "game:resumed")} : Returned(m)

pauseWith(plan) == \E m \in {runPause(Entered(plan))} : Returned(m)

stopWith(plan) ==
    \E paused \in {runPause(Entered(plan))} :
       \E m \in { IF paused.thrown THEN paused
                  ELSE publish(paused, Note("game:stopped", paused.gameTime, 0, "")) } :
          Returned(m)

\* The host runs an outstanding animation-frame callback.
FrameWith(plan) ==
    /\ Cardinality(rafQueue) <= MaxOutstanding
    /\ \E id \in rafQueue :
          \E m \in {runTick([Entered(plan) EXCEPT !.rafQueue = @ \ {id}])} :
             Returned(m)

\* The scene loads one scenario, once the world data is there.
HandlerScenarios == {ScenarioById("collapse")}

loadForHandlers ==
    /\ DOMAIN locations # {}
    /\ scenario = NoScenario
    /\ \E s \in HandlerScenarios : loadScenario(s)
    /\ Loaded

\* Game hours are a minute of real time apart at the initial speed.
RealDeltasHandlers == {60000}

\* The scene starts the clock once it has loaded the scenario.
SceneReady == scenario # NoScenario

NextHandlers ==
    \/ setupWorld
    \/ loadForHandlers
    \/ SceneReady /\ (\E d \in RealDeltasHandlers :
                         Elapse(d, MaxNowHandlers, MaxFrameGapHandlers)) /\ Unrecorded
    \/ SceneReady /\ \E plan \in Plans : startWith(plan)
    \/ SceneReady /\ resumeWith(<< >>)
    \/ SceneReady /\ pauseWith(<< >>)
    \/ SceneReady /\ stopWith(<< >>)
    \/ SceneReady /\ \E plan \in Plans : FrameWith(plan)

SpecHandlers == Init /\ [][NextHandlers]_vars

\* The engine under the clock, each call recorded: scenarios are loaded and
\* reset at any point of the run.
SpeedsEngine == {1, 500}

NextEngine ==
    \/ (\E d \in RealDeltas : Elapse(d, MaxNowClock, MaxFrameGap)) /\ Called("elapse")
    \/ start /\ Called("start")
    \/ pause /\ Called("pause")
    \/ Frame /\ Called("tick")
    \/ (\E m \in SpeedsEngine : setSpeedMultiplier(m)) /\ Called("setSpeedMultiplier")
    \/ (\E s \in TestScenarios : loadScenario(s)) /\ Called("loadScenario")
    \/ reset /\ Called("reset")

SpecEngine == Init /\ [][NextEngine]_vars

\* The clock with a ResourceManager subscribed to game:hourChanged, and
\* spend and add called between frames.
Costs ==
    { [energy |-> Amount(400)],
      [energy |-> Amount(400), kineticRods |-> Amount(60)],
      [energy |-> Amount(5), kineticRods |-> 0] }

Gains ==
    { [kineticRods |-> Amount(30)],
      [drones |-> Amount(400)] }

SpeedsRes == {1, 100}

HourChangesIn(notes) ==
    LET isHour(n) == n.name = "game:hourChanged" IN Len(SelectSeq(notes, isHour))

\* boundOnHourChanged runs for each game:hourChanged the step published.
Regenerating ==
    /\ SceneListener
    /\ resources' = regenerate(resources, HourChangesIn(log'))
    /\ regenCount' = regenCount + HourChangesIn(log')
    /\ resourceCall' = NoResourceCall
    /\ UNCHANGED <<lastCall, busVars, nations, baseline, lastUpdate,
                   resourceCallCount, saveVars, handlerVars>>

ResourceCalled(method, arg, result, notes) ==
    /\ resourceCallCount < MaxResourceCalls
    /\ resourceCallCount' = resourceCallCount + 1
    /\ resourceCall' = [method |-> method, arg |-> arg, result |-> result]
    /\ log' = notes
    /\ restoredFrom' = NoTime
    /\ UNCHANGED <<now, rafQueue, clockVars, engineVars, triggered, completeCount,
                   resumeGhost, lastCall, busVars, worldVars, regenCount, saveVars,
                   handlerVars>>

spend(cost) ==
    LET r == spendResult(resources, cost) IN
    /\ resources' = r.resources
    /\ ResourceCalled("spend", cost, r.result, r.notes)

addGains(gains) ==
    LET r == addResult(resources, gains) IN
    /\ resources' = r.resources
    /\ ResourceCalled("add", gains, TRUE, r.notes)

NextResources ==
    \/ (\E d \in RealDeltas : Elapse(d, MaxNowRes, MaxFrameGapRes)) /\ Regenerating
    \/ start /\ Regenerating
    \/ pause /\ Regenerating
    \/ Frame /\ Regenerating
    \/ (\E m \in SpeedsRes : setSpeedMultiplier(m)) /\ Regenerating
    \/ \E cost \in Costs : spend(cost)
    \/ \E gains \in Gains : addGains(gains)

SpecResources == Init /\ [][NextResources]_vars

\* The GameStateManager over the world data, with the save slot of
\* localStorage, which other code and the user can write as well.
Phases == {1, 2}
RunStates == {"paused", "running"}
StatUpdates == { [locationsAnalyzed |-> 1] }
SaveLocationUpdates == { [status |-> "occupied", controlledBy |-> "alien", stability |-> 40] }

\* A save that is whole, and the same save cut short.
ForeignSave ==
    [version |-> GAME_STATE_VERSION, savedAt |-> 0, phase |-> 3, runState |-> "game_over_win",
     time |-> TimeOf(0), resources |-> DEFAULT_FLEET_RESOURCES,
     stats |-> [DEFAULT_GAME_STATS EXCEPT !.nationsDefeated = 1],
     worldState |->
        [locations |->
            [id \in {"usa-norad", "atlantis"} |->
                [status |-> "neutralized", controlledBy |-> "destroyed", stability |-> 0]],
         nations |->
            [id \in {"usa"} |->
                [government |-> "collapsed", militaryStrength |-> 0, stability |-> 0,
                 resistance |-> 0, relations |-> "hostile"]]]]

Without(object, fields) == [field \in DOMAIN object \ fields |-> object[field]]

StoredItems ==
    { NoItem, Text("empty"), Text("garbage"), Text("json-null"),
      Json(EmptyMap),
      Json(ForeignSave),
      Json(Without(ForeignSave, {"worldState"})),
      Json([ForeignSave EXCEPT !.worldState = Without(@, {"nations"})]) }

ManagerFrame ==
    /\ restoredFrom' = NoTime
    /\ UNCHANGED <<now, rafQueue, clockVars, engineVars, triggered, completeCount,
                   resumeGhost, busVars, lastCall, baseline, listenerThrew,
                   lastUpdate, resourceVars, handlerVars>>

ManagerCall(notes) ==
    /\ log' = notes
    /\ saveCall' = NoSaveCall
    /\ UNCHANGED <<storage, locations, nations>>
    /\ ManagerFrame

setPhase(phase) ==
    /\ manager' = IF phase = manager.currentPhase THEN manager
                  ELSE [manager EXCEPT !.currentPhase = phase]
    /\ ManagerCall(IF phase = manager.currentPhase THEN << >>
                   ELSE << Note("game:phaseChanged", NoTime, phase, "") >>)

setRunState(runState) ==
    /\ manager' = IF runState = manager.runState THEN manager
                  ELSE [manager EXCEPT !.runState = runState]
    /\ ManagerCall(IF runState = manager.runState THEN << >>
                   ELSE << Note("game:runStateChanged", NoTime, 0, runState) >>)

updateStats(updates) ==
    /\ manager' = [manager EXCEPT !.stats = assign(@, updates)]
    /\ ManagerCall(<< Note("game:statsUpdated", NoTime, 0, "") >>)

\* The world data changing under the manager.
worldChanged ==
    /\ \/ initialize(StrategicLocations, NationsData)
       \/ /\ \E updates \in SaveLocationUpdates :
                locations' = IF "usa-norad" \in DOMAIN locations
                             THEN [locations EXCEPT !["usa-norad"] = assign(@, updates)]
                             ELSE locations
          /\ UNCHANGED nations
    /\ log' = << >>
    /\ saveCall' = NoSaveCall
    /\ UNCHANGED <<manager, storage>>
    /\ ManagerFrame

\* Something else writes or removes the item of the save slot.
setItem(item) ==
    /\ storage' = item
    /\ log' = << >>
    /\ saveCall' = NoSaveCall
    /\ UNCHANGED <<manager, locations, nations>>
    /\ ManagerFrame

saveGame(setItemThrows) ==
    LET r == saveGameResult(manager, locations, nations, gameTime, resources, now,
                            storage, setItemThrows) IN
    /\ storage' = r.storage
    /\ saveCall' = [method |-> "saveGame", result |-> r.result]
    /\ log' = r.notes
    /\ UNCHANGED <<manager, locations, nations>>
    /\ ManagerFrame

loadGame ==
    LET r == loadGameResult(manager, locations, nations, storage) IN
    /\ manager' = r.manager
    /\ locations' = r.locations
    /\ nations' = r.nations
    /\ saveCall' = [method |-> "loadGame", result |-> r.result]
    /\ log' = r.notes
    /\ UNCHANGED storage
    /\ ManagerFrame

NextSave ==
    \/ \E phase \in Phases : setPhase(phase)
    \/ \E runState \in RunStates : setRunState(runState)
    \/ \E updates \in StatUpdates : updateStats(updates)
    \/ worldChanged
    \/ \E item \in StoredItems : setItem(item)
    \/ \E setItemThrows \in BOOLEAN : saveGame(setItemThrows)
    \/ loadGame

SpecSave == Init /\ [][NextSave]_vars

(***************************************************************************)
(* Properties                                                              *)
(***************************************************************************)
HasNote(name) == \E i \in 1..Len(log) : log[i].name = name
CountNotes(notes, name) == Cardinality({i \in 1..Len(notes) : notes[i].name = name})
TickIn(notes) == \E i \in 1..Len(notes) : notes[i].name = "game:tick"
RestoredIn(notes) == \E i \in 1..Len(notes) : notes[i].name = "game:timeRestored"
Authored == IF scenario = NoScenario THEN << >> ELSE ScenarioById(scenario).events
AuthoredIndex(id) == CHOOSE i \in 1..Len(Authored) : Authored[i].id = id

\* C1: within one scenario load no event id appears twice in the stream of
\* scenario:eventTriggered notifications, whatever the ticks do (also when
\* the game time of a tick repeats or lies before that of an earlier tick).
C1_NoEventTwice ==
    \A i, j \in 1..Len(triggered) : i # j => triggered[i] # triggered[j]

\* A tick was processed at a scenario time that lies before the time of an
\* event this load has already triggered (the clock was set back).
C1_Witness ==
    /\ Len(triggered) >= 2
    /\ TickIn(log)
    /\ gameTimeToScenarioTime(gameTime)
         < Authored[AuthoredIndex(triggered[Len(triggered)])].time

C3_TimeOrderStable ==
    \A i, j \in 1..Len(triggered) :
        i < j =>
            LET a == AuthoredIndex(triggered[i])
                b == AuthoredIndex(triggered[j])
            IN  \/ Authored[a].time < Authored[b].time
                \/ Authored[a].time = Authored[b].time /\ a < b

\* The four events of the unsorted scenario were all triggered by one tick.
C3_Witness ==
    /\ scenario = "shuffled"
    /\ CountNotes(log, "scenario:eventTriggered") = 4
    /\ triggered = << "r", "q", "s", "p" >>

FirstContactOrder ==
    [i \in 1..Len(firstContactScenario.events) |-> firstContactScenario.events[i].id]

C6_PauseAddsNoTime ==
    [][ /\ (~isRunning /\ ~RestoredIn(log'))
            => gameTime'.elapsedMs = gameTime.elapsedMs
        /\ (isRunning /\ resumedAt # NoRef /\ TickIn(log'))
            => gameTime'.elapsedMs
                 = gameTime.elapsedMs + speedMultiplier * (now - resumedAt)
      ]_vars

\* Real time passed during a pause and a frame has ticked, with a positive
\* advance, since the clock was resumed.
C6_Witness ==
    /\ isRunning
    /\ idle > 0
    /\ resumedAt = NoRef
    /\ HasNote("game:tick")
    /\ log[Len(log)].num > 0
    /\ gameTime.elapsedMs > log[Len(log)].num

\* C7: a tick never decreases elapsedMs, and after it day, hour and minute
\* are the projection of elapsedMs: minute = floor(totalMinutes) mod 60,
\* hour = floor(totalMinutes / 60) mod 24, day = floor(totalHours / 24) + 1,
\* so hour is in 0..23, minute in 0..59 and day >= 1.
C7_MonotoneProjection ==
    [][ TickIn(log') =>
          LET totalMinutes == gameTime'.elapsedMs \div 1000
              totalHours == totalMinutes \div 60
          IN  /\ gameTime'.elapsedMs >= gameTime.elapsedMs
              /\ gameTime'.minute = totalMinutes % 60
              /\ gameTime'.hour = totalHours % 24
              /\ gameTime'.day = (totalHours \div 24) + 1
              /\ gameTime'.hour \in 0..23
              /\ gameTime'.minute \in 0..59
              /\ gameTime'.day >= 1
      ]_vars

\* A tick on the second day or later, past a whole hour and a whole minute.
C7_Witness ==
    /\ TickIn(log)
    /\ gameTime.day >= 2
    /\ gameTime.hour > 0
    /\ gameTime.minute > 0
    /\ gameTime.elapsedMs % 1000 # 0

\* C8: within one tick game:hourChanged comes before game:dayChanged, and
\* game:tick comes after both and carries the GameTime the tick has produced.
C8_TickNotificationOrder ==
    \A i, k \in 1..Len(log) :
        /\ (log[i].name = "game:hourChanged" /\ log[k].name = "game:dayChanged") => i < k
        /\ (log[i].name \in {"game:hourChanged", "game:dayChanged"}
              /\ log[k].name = "game:tick") => i < k
        /\ log[k].name = "game:tick" => log[k].time = gameTime

\* A tick that published all three notifications.
C8_Witness ==
    /\ HasNote("game:hourChanged")
    /\ HasNote("game:dayChanged")
    /\ HasNote("game:tick")

\* C9: a tick that publishes game:dayChanged has published game:hourChanged
\* before it.
C9_HourChangesWithDay ==
    \A k \in 1..Len(log) :
        log[k].name = "game:dayChanged" =>
            \E i \in 1..(k - 1) : log[i].name = "game:hourChanged"

\* C10: restoreTime publishes game:timeRestored, carrying the restored
\* GameTime, and nothing else.
C10_RestoreOnlyTimeRestored ==
    (restoredFrom # NoTime \/ HasNote("game:timeRestored")) =>
        log = << Note("game:timeRestored", gameTime, 0, "") >>

\* A restore that changed both the hour and the day of the clock.
C10_Witness ==
    /\ restoredFrom # NoTime
    /\ restoredFrom.hour # gameTime.hour
    /\ restoredFrom.day # gameTime.day

\* C11: a setSpeedMultiplier(v) call with v equal to the current multiplier
\* changes nothing and publishes nothing; with another v it publishes exactly
\* one game:speedChanged carrying the new and the previous multiplier, and
\* GameTime (like the rest of the clock but the multiplier) stays as it was.
C11_SpeedChangeOnce ==
    [][ lastCall' = "setSpeedMultiplier" =>
          /\ gameTime' = gameTime
          /\ UNCHANGED <<isRunning, lastTickTime, animationFrameId, rafQueue, engineVars>>
          /\ IF speedMultiplier' = speedMultiplier
             THEN log' = << >>
             ELSE /\ Len(log') = 1
                  /\ log'[1].name = "game:speedChanged"
                  /\ log'[1].num = speedMultiplier'
                  /\ log'[1].previousMultiplier = speedMultiplier
                  /\ speedMultiplier' \in Speeds ]_vars

\* A running clock that has advanced was just switched from 1x to 100x.
C11_Witness ==
    /\ lastCall = "setSpeedMultiplier"
    /\ isRunning
    /\ gameTime.elapsedMs > 0
    /\ Len(log) = 1
    /\ log[1].name = "game:speedChanged"
    /\ log[1].num = 100
    /\ log[1].previousMultiplier = 1
    /\ speedMultiplier = 100

\* C12: start() while the clock is running and pause() while it is paused
\* change no clock state, schedule or cancel no frame and publish nothing.
C12_IdempotentStartPause ==
    [][ /\ (lastCall' = "start" /\ isRunning) =>
             (UNCHANGED <<clockVars, rafQueue, engineVars>> /\ log' = << >>)
        /\ (lastCall' = "pause" /\ ~isRunning) =>
             (UNCHANGED <<clockVars, rafQueue, engineVars>> /\ log' = << >>) ]_vars

\* start() was called on a clock that was already running, its frame
\* outstanding: the call published no game:started.
C12_Witness ==
    /\ lastCall = "start"
    /\ isRunning
    /\ log = << >>
    /\ gameTime.elapsedMs > 0
    /\ rafQueue = {animationFrameId}

\* An invocation record is a run of the given member of a Set.
IsRunOf(run, entry) == run.callback = entry.callback /\ run.wrapper = entry.wrapper
RunsAt(runs, depth) == LET at(run) == run.depth = depth IN SelectSeq(runs, at)

\* C13: in an emit, a callback that throws does not keep the callbacks
\* registered after it for that event from being invoked in the same emit,
\* and no error reaches the caller of emit.  (A once() callback registered
\* after it may be run, and so removed, by an emit nested in this one.)
C13_ThrowDoesNotStopEmit ==
    [][ emitted' # NoEvent =>
          LET set == listeners[emitted']
              runs == invocations'
          IN  /\ ~escaped'
              /\ \A p \in 1..Len(runs), i \in 1..Len(set), k \in 1..Len(set) :
                   ( /\ runs[p].threw
                     /\ runs[p].depth = 0
                     /\ IsRunOf(runs[p], set[i])
                     /\ i < k )
                   => \/ \E q \in (p + 1)..Len(runs) :
                           IsRunOf(runs[q], set[k]) /\ runs[q].depth = 0
                      \/ /\ set[k].wrapper # Direct
                         /\ \E q \in 1..Len(runs) : IsRunOf(runs[q], set[k]) ]_vars

\* An emit ran a callback that threw and then, in the same emit, the
\* callback registered after it.
C13_Witness ==
    /\ emitted # NoEvent
    /\ ~escaped
    /\ Len(invocations) = 2
    /\ invocations[1].threw /\ invocations[1].depth = 0
    /\ invocations[2].callback = "h1" /\ invocations[2].depth = 0
    /\ ~invocations[2].threw

\* C14: an emit invokes each callback registered for the event exactly once,
\* within the emit, in registration order (a once() callback that a nested
\* emit has run already is not run again); a callback handed to on() twice
\* is still invoked once per emit.
C14_EachHandlerOnceInOrder ==
    [][ emitted' # NoEvent =>
          LET set == listeners[emitted']
              runs == invocations'
              top == RunsAt(runs, 0)
              ranNested(entry) ==
                  /\ entry.wrapper # Direct
                  /\ \E q \in 1..Len(runs) : runs[q].depth > 0 /\ IsRunOf(runs[q], entry)
              notNested(entry) == ~ranNested(entry)
              due == SelectSeq(set, notNested)
          IN  /\ Len(top) = Len(due)
              /\ \A k \in 1..Len(top) : IsRunOf(top[k], due[k])
              /\ \A q \in 1..Len(runs) : runs[q].event = emitted'
              /\ \A callback \in Callbacks :
                   Cardinality({k \in 1..Len(top) : /\ top[k].callback = callback
                                                    /\ top[k].wrapper = Direct})
                     = IF Listener(callback, Direct) \in Range(set) THEN 1 ELSE 0 ]_vars

\* Two callbacks subscribed with on(), the throwing one first, were invoked
\* by an emit in that order.
C14_Witness ==
    /\ emitted # NoEvent
    /\ listeners[emitted] = << Listener("h2", Direct), Listener("h1", Direct) >>
    /\ Len(invocations) = 2
    /\ IsRunOf(invocations[1], Listener("h2", Direct))
    /\ IsRunOf(invocations[2], Listener("h1", Direct))

\* C15: a callback registered with once() is invoked by the first emit of
\* the event after the registration and by no later one: it is unsubscribed
\* before its body runs, so it runs at most once, also when it throws or
\* emits the same event again.
C15_OnceAtMostOnce ==
    /\ [](\A n \in 1..MaxOnce :
            /\ onceRuns[n] <= 1
            /\ onceRuns[n] = 1 =>
                 \A event \in BusEvents :
                    \A i \in 1..Len(listeners[event]) :
                       listeners[event][i].wrapper # n)
    /\ [][ emitted' # NoEvent =>
             \A i \in 1..Len(listeners[emitted']) :
                LET entry == listeners[emitted'][i] IN
                entry.wrapper # Direct =>
                  /\ onceRuns'[entry.wrapper] = 1
                  /\ entry \notin Range(listeners'[emitted']) ]_vars

\* A once() callback emitted its own event again: the nested emit ran the
\* other callbacks and not the once() callback a second time.
C15_Witness ==
    /\ emitted # NoEvent
    /\ Len(invocations) >= 2
    /\ invocations[1].wrapper # Direct
    /\ Body(invocations[1].callback) = "emit"
    /\ invocations[2].depth = 1
    /\ onceRuns[invocations[1].wrapper] = 1

InTriggered(id) == \E i \in 1..Len(triggered) : triggered[i] = id

\* C16: applying event effects keeps every location's stability in [0,100]:
\* -150 applied at 100 (or below) gives 0, further negative deltas keep it
\* at 0, and a delta that overshoots upward stops at 100.
C16_StabilityClamped ==
    /\ \A id \in DOMAIN locations :
          locations[id].stability >= 0 /\ locations[id].stability <= 100
    /\ (scenario = "collapse" /\ InTriggered("bombard") /\ ~InTriggered("relief"))
          => locations["uk-london"].stability = 0
    /\ (scenario = "collapse" /\ InTriggered("relief"))
          => locations["uk-london"].stability = 100

\* Stability was driven to 0 by -150 and a further -20 left it there.
C16_Witness ==
    /\ scenario = "collapse"
    /\ triggered = << "bombard", "riot" >>
    /\ baseline["uk-london"].stability = 100
    /\ locations["uk-london"].stability = 0

\* What the effects of the events with the given ids, applied once each in
\* that order, make of a location.
RECURSIVE AfterEffects(_, _, _, _)
AfterEffects(location, id, sid, eventIds) ==
    IF eventIds = << >> THEN location
    ELSE LET event == EventOf(sid, Head(eventIds))
             hit == HasEffect(event) /\ event.effect.locationId = id
             sum == location.stability + event.effect.stabilityChange
             next ==
               IF ~hit THEN location
               ELSE [location EXCEPT
                       !.status = IF event.effect.newStatus = Absent
                                  THEN @ ELSE event.effect.newStatus,
                       !.controlledBy = IF event.effect.newControlledBy = Absent
                                        THEN @ ELSE event.effect.newControlledBy,
                       !.stability = IF sum < 0 THEN 0 ELSE IF sum > 100 THEN 100 ELSE sum]
         IN  AfterEffects(next, id, sid, Tail(eventIds))

\* C17: each triggered event's effect is applied to its location exactly once
\* per load, in trigger order, changing only the fields it carries: every
\* location is what the effects of the events triggered since the load make
\* of the location as it was at the load.  For "two-step" (controlledBy
\* destroyed at time 0, stability -30 at time 1) the location ends controlled
\* by destroyed, its stability 30 lower, its status as it was.
C17_EffectsOnceInOrder ==
    scenario \in {sc.id : sc \in EffectScenarios} =>
      /\ DOMAIN locations = DOMAIN baseline
      /\ \A id \in DOMAIN locations :
            locations[id] = AfterEffects(baseline[id], id, scenario, triggered)
      /\ scenario = "two-step" =>
            LET before == baseline["usa-norad"]
                after == locations["usa-norad"]
            IN  /\ after.status = before.status
                /\ after.controlledBy =
                     IF InTriggered("strike") THEN "destroyed" ELSE before.controlledBy
                /\ before.stability >= 30 =>
                     after.stability =
                       IF InTriggered("aftershock")
                       THEN before.stability - 30 ELSE before.stability
                /\ locations["uk-london"] = baseline["uk-london"]

\* The two events of "two-step" have both been triggered, in two ticks, on
\* the world as initialize left it.
C17_Witness ==
    /\ scenario = "two-step"
    /\ triggered = << "strike", "aftershock" >>
    /\ state.isComplete
    /\ CountNotes(log, "scenario:eventTriggered") = 1
    /\ baseline["usa-norad"].stability = 100
    /\ locations["usa-norad"].stability = 70
    /\ locations["usa-norad"].controlledBy = "destroyed"
    /\ locations["usa-norad"].status = "analyzed"

\* C18: an event whose effect names a location that WorldData does not hold
\* is handled softly: the listener does not throw, no location is changed or
\* added, and the later events of the scenario are triggered when due and
\* the scenario completes.
C18_MissingLocationSoft ==
    /\ ~listenerThrew
    /\ scenario = "stale" =>
         /\ DOMAIN locations = DOMAIN baseline
         /\ "atlantis" \notin DOMAIN locations
         /\ ~InTriggered("real-strike") => locations = baseline
         /\ \A k \in 1..Len(log) :
              log[k].name = "game:tick" =>
                 /\ \A i \in 1..Len(pendingEvents) :
                       pendingEvents[i].time > gameTimeToScenarioTime(log[k].time)
                 /\ pendingEvents = << >> => state.isComplete
         /\ state.isComplete => triggered = << "ghost-strike", "real-strike", "epilogue" >>

\* The event aimed at the missing location was triggered, and the two after
\* it, the first of which changed the location it names; the scenario is
\* complete.
C18_Witness ==
    /\ scenario = "stale"
    /\ triggered = << "ghost-strike", "real-strike", "epilogue" >>
    /\ state.isComplete
    /\ completeCount = 1
    /\ locations["usa-norad"].status = "contested"
    /\ baseline["usa-norad"].status = "analyzed"

\* C19: updateLocation(id, updates) and updateNation(id, updates) are
\* shallow partial merges: for an id the store holds, the entity takes each
\* field of the updates whole and keeps every other field, and every other
\* entity is as it was; for an id the store does not hold nothing changes.
C19_ShallowPartialMerge ==
    [][ lastCall' \in {"updateLocation", "updateNation"} =>
          LET id == lastUpdate'.id
              updates == lastUpdate'.updates
              ofLocations == lastCall' = "updateLocation"
              before == IF ofLocations THEN locations ELSE nations
              after == IF ofLocations THEN locations' ELSE nations'
          IN  /\ IF ofLocations THEN nations' = nations ELSE locations' = locations
              /\ DOMAIN after = DOMAIN before
              /\ \A other \in DOMAIN before \ {id} : after[other] = before[other]
              /\ id \in DOMAIN before =>
                   /\ DOMAIN after[id] = DOMAIN before[id] \cup DOMAIN updates
                   /\ \A field \in DOMAIN updates : after[id][field] = updates[field]
                   /\ \A field \in DOMAIN before[id] \ DOMAIN updates :
                         after[id][field] = before[id][field] ]_vars

\* updateLocation has just given a location a new controlledBy and stability
\* and left its status, name and coordinates alone.
C19_Witness ==
    /\ lastCall = "updateLocation"
    /\ lastUpdate = [id |-> "usa-norad",
                     updates |-> [controlledBy |-> "alien", stability |-> 40]]
    /\ "usa-norad" \in DOMAIN locations
    /\ locations["usa-norad"].controlledBy = "alien"
    /\ locations["usa-norad"].stability = 40
    /\ locations["usa-norad"].status = "analyzed"
    /\ locations["usa-norad"].name = "NORAD"
    /\ locations["usa-norad"].coordinates = Coordinates(39, 0 - 105)
    /\ locations["uk-london"].stability = 100

\* C20: every entry of the location map has the id it is keyed by and the
\* name, type, coordinates and nation that initialize gave it; only status,
\* controlledBy and stability ever differ from what initialize left.
C20_IdentityImmutable ==
    \A id \in DOMAIN locations :
       LET original == initLocationState(LastWithId(StrategicLocations, id)) IN
       /\ locations[id].id = id
       /\ DOMAIN locations[id] = DOMAIN original
       /\ \A field \in DOMAIN original \ {"status", "controlledBy", "stability"} :
             locations[id][field] = original[field]

\* C21: spend is all-or-nothing: when some requested type holds less than the
\* amount asked of it, spend returns false and every resource is as before;
\* otherwise it returns true, each requested type has lost exactly the amount
\* asked and the other types are as before.
C21_SpendAllOrNothing ==
    [][ resourceCall'.method = "spend" =>
          LET cost == resourceCall'.arg
              asked(type) == IF type \in DOMAIN cost THEN cost[type] ELSE 0
              short == \E type \in DOMAIN cost : resources[type].current < cost[type]
          IN  IF short
              THEN /\ resourceCall'.result = FALSE
                   /\ resources' = resources
              ELSE /\ resourceCall'.result = TRUE
                   /\ \A type \in DOMAIN resources :
                         resources'[type] =
                            [resources[type] EXCEPT !.current = @ - asked(type)] ]_vars

\* spend has just refused a cost of which one type alone was affordable.
C21_Witness ==
    /\ resourceCall.method = "spend"
    /\ resourceCall.result = FALSE
    /\ \E type \in DOMAIN resourceCall.arg :
          /\ resourceCall.arg[type] > 0
          /\ resources[type].current >= resourceCall.arg[type]
    /\ \E type \in DOMAIN resourceCall.arg :
          resources[type].current < resourceCall.arg[type]

\* C22: the regeneration has run once for each game-hour boundary that the
\* clock's elapsed time has crossed.
C22_RegenPerHourBoundary ==
    regenCount = gameTime.elapsedMs \div MS_PER_GAME_HOUR

\* C30: every resource holds at least 0 and at most its max.
C30_ResourcesWithinBounds ==
    \A type \in DOMAIN resources :
       /\ 0 <= resources[type].current
       /\ resources[type].current <= resources[type].max

\* After a regeneration, add has just been asked for more drones than there is
\* room for and has filled them to their max.
C30_Witness ==
    /\ regenCount > 0
    /\ resourceCall.method = "add"
    /\ "drones" \in DOMAIN resourceCall.arg
    /\ resources["drones"].current = resources["drones"].max
    /\ resources["drones"].current < DEFAULT_FLEET_RESOURCES["drones"].current
                                        + resourceCall.arg["drones"]

\* C23: a loadGame that returns null leaves the manager's phase, run state
\* and stats and every entity of the world data as they were, and a saveGame
\* that returns false leaves them and the save slot as they were.
C23_FailedSaveLoadChangesNothing ==
    [][ /\ (saveCall'.method = "loadGame" /\ saveCall'.result = "null") =>
             /\ manager' = manager
             /\ locations' = locations
             /\ nations' = nations
        /\ (saveCall'.method = "saveGame" /\ saveCall'.result = "false") =>
             /\ manager' = manager
             /\ locations' = locations
             /\ nations' = nations
             /\ storage' = storage ]_vars

\* C26: after reset() with a scenario held, the engine is as loadScenario of
\* that scenario leaves it: no id is completed, isComplete is false, every
\* event of the scenario is pending, in ascending order of time, and
\* scenario:loaded has been published; with no scenario held, reset() changes
\* nothing and publishes nothing.
C26_ResetReloads ==
    [][ lastCall' = "reset" =>
          IF scenario = NoScenario
          THEN /\ UNCHANGED engineVars
               /\ log' = << >>
          ELSE LET events == ScenarioById(scenario).events IN
               /\ scenario' = scenario
               /\ state' = [scenarioId |-> scenario, currentTime |-> 0,
                            completedEventIds |-> {}, isComplete |-> FALSE]
               /\ Len(pendingEvents') = Len(events)
               /\ Range(pendingEvents') = Range(events)
               /\ \A i \in 1..Len(pendingEvents') - 1 :
                     pendingEvents'[i].time <= pendingEvents'[i + 1].time
               /\ \E i \in 1..Len(log') :
                     /\ log'[i].name = "scenario:loaded"
                     /\ log'[i].id = scenario ]_vars

\* reset() has just been called on a scenario that had run to completion.
C26_Witness ==
    /\ lastCall = "reset"
    /\ scenario = "shuffled"
    /\ completeCount = 0
    /\ state.completedEventIds = {}
    /\ Len(pendingEvents) = Len(ScenarioById("shuffled").events)
    /\ gameTime.elapsedMs >= 5 * MS_PER_GAME_HOUR

\* C27: with a scenario loaded, the completed ids and the ids of the pending
\* events are disjoint and together are the ids of the scenario's events, no
\* event is pending twice, the pending events are in ascending order of time,
\* and isComplete is true only if no event is pending.
C27_CompletedAndPendingPartition ==
    scenario # NoScenario =>
       LET events == ScenarioById(scenario).events
           ids == {events[i].id : i \in 1..Len(events)}
           pendingIds == {pendingEvents[i].id : i \in 1..Len(pendingEvents)}
       IN  /\ state.completedEventIds \cap pendingIds = {}
           /\ state.completedEventIds \cup pendingIds = ids
           /\ Cardinality(pendingIds) = Len(pendingEvents)
           /\ \A i \in 1..Len(pendingEvents) - 1 :
                 pendingEvents[i].time <= pendingEvents[i + 1].time
           /\ state.isComplete => pendingEvents = << >>

\* Part of a scenario authored out of order has run: some of its events are
\* completed and the others are still pending.
C27_Witness ==
    /\ scenario = "shuffled"
    /\ Cardinality(state.completedEventIds) >= 2
    /\ Len(pendingEvents) >= 1
    /\ ~state.isComplete

C29_OneFrameOutstanding ==
    Cardinality(rafQueue) <= 1

Stages(event) ==
    << "scene:feeds" >>
    \o (IF "locationId" \in DOMAIN event /\ event.locationId \in DOMAIN locations
           /\ event.type \in WeaponTypes
        THEN << "scene:weapons" >> ELSE << >>)
    \o (IF HasEffect(event) /\ event.effect.locationId \in DOMAIN locations
        THEN << "scene:location", "scene:marker" >> ELSE << >>)

\* C25: each scenario:eventTriggered is followed at once by all that the
\* scene's listener does for that event, before anything else is published,
\* the next event included; and the locations after the step are those that
\* the effects of the events published, applied whole and in order, give,
\* also when a handler has paused the clock in between.
C25_FanOutAtomic ==
    [][ /\ \A i \in 1..Len(log') :
              log'[i].name = "scenario:eventTriggered" =>
                 LET event == EventOf(scenario, log'[i].id)
                     stages == Stages(event)
                 IN  /\ i + Len(stages) <= Len(log')
                     /\ \A k \in 1..Len(stages) :
                           /\ log'[i + k].name = stages[k]
                           /\ log'[i + k].id = event.id
        /\ (\E i \in 1..Len(log') : log'[i].name = "scenario:eventTriggered") =>
              locations' = dispatchAll([locations |-> locations, threw |-> FALSE],
                                       TriggeredEvents(scenario, log')).locations
      ]_vars

\* Two events have triggered in one tick, a handler has paused the clock
\* after the first, and the location shows the effects of both.
C25_Witness ==
    /\ TickIn(log)
    /\ EventIdsIn(log) = << "riot", "relief" >>
    /\ handled = << Handler("scenario:eventTriggered", "pause") >>
    /\ ~isRunning
    /\ locations["uk-london"].status = "contested"
    /\ locations["uk-london"].stability = 100

====
